---- MODULE Spec2Model ----
(***************************************************************************)
(* Model of balmanth/digit-guesser: the dense Matrix container             *)
(* (core/matrix.ts), the NeuralLayer genetic operators (neural/layer.ts),  *)
(* the NeuralNetwork forward/backward passes (neural/network.ts), the      *)
(* NeuralMath random utilities (neural/math.ts), the ReLU activation       *)
(* family (neural/functions/relu.ts) and the page with its Worker channel  *)
(* (index.ts, core/worker.ts, workers/neural.worker.ts).                   *)
(*                                                                         *)
(* Numbers are exact rationals n/d (d > 0, lowest terms) plus the two      *)
(* JavaScript non-numbers the code can produce: NaN and undefined.  Every  *)
(* value the bounded model computes is a dyadic rational with a small      *)
(* numerator, so Float32Array storage keeps it exactly.                    *)
(***************************************************************************)
EXTENDS Integers, Sequences, FiniteSets, TLC

VARIABLES
  mA,        \* SpecMatrix: the receiver Matrix
  mB,        \* SpecMatrix: the argument Matrix
  mRes,      \* SpecMatrix: record of the last Matrix call and its outcome
  nets,      \* Spec: the NeuralNetwork objects, by slot
  mut,       \* Spec: position of the running NeuralNetwork.mutate call
  last,      \* Spec: record of the last completed network call
  ops,       \* number of state-changing calls made so far
  topology,  \* Spec: the layer sizes [s0, ..., sn] the networks are built from
  host,      \* SpecHost: the page: controls, canvas, promises of Worker.emit
  chan,      \* SpecHost: messages in flight and the worker's position
  heap       \* SpecObjects: the Matrix, layer and network objects, by reference

mvars == <<mA, mB, mRes>>
nvars == <<nets, mut, last, ops, topology>>
hvars == <<host, chan>>
vars == <<mA, mB, mRes, nets, mut, last, ops, topology, host, chan, heap>>

(***************************************************************************)
(* Bounds                                                                  *)
(***************************************************************************)
MaxDim == 2        \* largest row / column count of a SpecMatrix sample
MaxSets == 2       \* number of set calls in one SpecMatrix behaviour
MaxOps == 2        \* number of state-changing network calls in one behaviour
MaxExact == 16777216   \* 2^24: significands a Float32Array element holds exactly
MaxInput == 3      \* longest input vector handed to NeuralLayer.process
MaxClicks == 2     \* number of train / predict clicks in one SpecHost behaviour
MaxClass == 2      \* number of class inputs (radio buttons) on the page
MaxEmits == 2      \* number of emit calls in one SpecChannel behaviour
MaxReplies == 1    \* number of unrequested replies in one SpecChannel behaviour
CanvasPixels == 2  \* pixels per side of the SpecCanvas grid (15 on the page)
PagePixels == 1    \* pixels per side of the canvas of the SpecHost page

\* the objects by reference: none while the specifications of values run
NoObjects == [matrices |-> <<>>, layers |-> <<>>, networks |-> <<>>]

ObjectsIdle == heap = NoObjects

\* the page variables, idle while the other specifications run
HostIdle ==
  /\ host = [op |-> "none"]
  /\ chan = [op |-> "none"]

(***************************************************************************)
(* JavaScript numbers                                                      *)
(***************************************************************************)
Abs(x) == IF x < 0 THEN -x ELSE x

RECURSIVE GCD(_, _)
GCD(a, b) == IF b = 0 THEN a ELSE GCD(b, a % b)

\* the rational n/d in lowest terms with a positive denominator
Rat(n, d) ==
  LET g == GCD(Abs(n), Abs(d))
      s == IF d < 0 THEN -1 ELSE 1
  IN [k |-> "num", n |-> s * (n \div g), d |-> s * (d \div g)]

Int2Num(i) == [k |-> "num", n |-> i, d |-> 1]
Zero == Int2Num(0)
One == Int2Num(1)
NaN == [k |-> "nan", n |-> 0, d |-> 1]
Undefined == [k |-> "undef", n |-> 0, d |-> 1]

\* a number outside the range this model computes exactly; a call that
\* produces one is not taken (see Exact below)
Inexact == [k |-> "inexact", n |-> 0, d |-> 1]

IsNum(x) == x.k = "num"

\* a * b and a + b fit the integers of the model checker
MulFits(a, b) == b = 0 \/ Abs(a) <= 2147483647 \div Abs(b)
AddFits(a, b) == Abs(a) <= 2147483647 - Abs(b)

\* the result of an operator on operands that are not both numbers
NonNum(x, y) == IF x.k = "inexact" \/ y.k = "inexact" THEN Inexact ELSE NaN

\* x + y, x - y, x * y on JavaScript numbers (undefined operands give NaN)
NumAdd(x, y) ==
  IF IsNum(x) /\ IsNum(y)
  THEN LET g == GCD(x.d, y.d)
       IN IF /\ MulFits(x.n, y.d \div g) /\ MulFits(y.n, x.d \div g)
             /\ MulFits(x.d, y.d \div g)
             /\ AddFits(x.n * (y.d \div g), y.n * (x.d \div g))
          THEN Rat(x.n * (y.d \div g) + y.n * (x.d \div g), x.d * (y.d \div g))
          ELSE Inexact
  ELSE NonNum(x, y)

NumNegate(x) == IF IsNum(x) THEN [x EXCEPT !.n = -x.n] ELSE x

NumSub(x, y) == NumAdd(x, NumNegate(y))

NumMul(x, y) ==
  IF IsNum(x) /\ IsNum(y)
  THEN IF MulFits(x.n, y.n) /\ MulFits(x.d, y.d)
       THEN Rat(x.n * y.n, x.d * y.d)
       ELSE Inexact
  ELSE NonNum(x, y)

\* x / 2
NumHalf(x) ==
  IF IsNum(x)
  THEN IF MulFits(2, x.d) THEN Rat(x.n, 2 * x.d) ELSE Inexact
  ELSE NonNum(x, x)

\* x < 0 and x > 0 (false for NaN)
NumNeg(x) == IsNum(x) /\ x.n < 0
NumPos(x) == IsNum(x) /\ x.n > 0

\* Math.round(x) for a rational x: floor(x + 1/2)
MathRound(x) == (2 * x.n + x.d) \div (2 * x.d)

\* what a Float32Array element holds after `data[offset] = x`: the value
\* itself while its significand fits 24 bits, NaN for undefined
ToFloat(x) ==
  IF IsNum(x) THEN (IF Abs(x.n) < MaxExact THEN x ELSE Inexact)
  ELSE IF x.k = "inexact" THEN Inexact ELSE NaN

(***************************************************************************)
(* Matrix (core/matrix.ts)                                                 *)
(***************************************************************************)
\* new Matrix(rows, columns): a zero-filled buffer of rows * columns elements
NewMatrix(rows, columns) ==
  [rows |-> rows, columns |-> columns,
   data |-> [i \in 1..(rows * columns) |-> Zero]]

MatrixSize(m) == m.rows * m.columns

\* static getOffset / getRow / getColumn
getOffset(m, row, column) == row * m.columns + column
getRow(m, offset) ==
  IF offset >= 0 THEN offset \div m.columns ELSE -((-offset) \div m.columns)
getColumn(m, offset) == offset - getRow(m, offset) * m.columns

\* this.#data[offset]: undefined outside the buffer
DataAt(m, offset) ==
  IF offset >= 0 /\ offset < Len(m.data) THEN m.data[offset + 1] ELSE Undefined

\* this.#data[offset] = value: ignored outside the buffer
DataPut(m, offset, value) ==
  IF offset >= 0 /\ offset < Len(m.data)
  THEN [m EXCEPT !.data[offset + 1] = ToFloat(value)]
  ELSE m

\* mutant: the bound check of the older Matrix (offset > length)
assertOffsetThrowsMutant(m, offset) == offset > Len(m.data)

assertOffsetThrows(m, offset) == offset >= Len(m.data)

at(m, row, column) == DataAt(m, getOffset(m, row, column))

\* get(row, column): [threw, value]
get(m, row, column) ==
  LET offset == getOffset(m, row, column)
  IN IF assertOffsetThrows(m, offset)
     THEN [threw |-> TRUE, value |-> Undefined]
     ELSE [threw |-> FALSE, value |-> DataAt(m, offset)]

\* set(row, column, value): [threw, m (the matrix afterwards), value (previous)]
set(m, row, column, value) ==
  LET offset == getOffset(m, row, column)
  IN IF assertOffsetThrows(m, offset)
     THEN [threw |-> TRUE, m |-> m, value |-> Undefined]
     ELSE [threw |-> FALSE, m |-> DataPut(m, offset, value),
           value |-> DataAt(m, offset)]

\* the (row, column) pairs the loops of fill, each and map visit
Cells(m) == (0..(m.rows - 1)) \X (0..(m.columns - 1))

\* fill(callback): every (row, column) of the matrix gets the value the
\* callback returns for it; callback[<<row, column>>] is that value
fill(m, callback) ==
  [m EXCEPT !.data =
     [i \in 1..Len(m.data) |->
        ToFloat(callback[<<(i - 1) \div m.columns, (i - 1) % m.columns>>])]]

\* fill(value)
fillValue(m, value) ==
  [m EXCEPT !.data = [i \in 1..Len(m.data) |-> ToFloat(value)]]

\* the two objects of a map(callback) call when it returns: the receiver
\* `this` and the `result` it allocates with the receiver's shape; fill is
\* called on result only.  callback[<<row, column>>] is
\* callback(this.at(row, column), row, column)
mapCall(m, callback) ==
  [this |-> m, result |-> fill(NewMatrix(m.rows, m.columns), callback)]

\* map(callback): the matrix the call returns
map(m, callback) == mapCall(m, callback).result

add(m, matrix) ==
  map(m, [c \in Cells(m) |-> NumAdd(at(m, c[1], c[2]), at(matrix, c[1], c[2]))])

subtract(m, matrix) ==
  map(m, [c \in Cells(m) |-> NumSub(at(m, c[1], c[2]), at(matrix, c[1], c[2]))])

\* the three objects of an add(matrix) call when it returns: the receiver
\* `this` as map leaves it, the argument `matrix`, which the callback only
\* reads with at, and the `result` map allocates
addCall(m, matrix) ==
  [this |-> mapCall(m, [c \in Cells(m) |->
                          NumAdd(at(m, c[1], c[2]), at(matrix, c[1], c[2]))]).this,
   matrix |-> matrix,
   result |-> add(m, matrix)]

\* mutant: the check compares the two column counts
multiplyThrowsMutant(m, matrix) == m.columns # matrix.columns

multiplyThrows(m, matrix) == m.columns # matrix.rows

\* the inner loop of multiply: sum over index .. columns-1, added to sum
RECURSIVE multiplySum(_, _, _, _, _, _)
multiplySum(m, matrix, row, column, index, sum) ==
  IF index < m.columns
  THEN multiplySum(m, matrix, row, column, index + 1,
         NumAdd(sum, NumMul(at(m, row, index), at(matrix, index, column))))
  ELSE sum

\* multiply(matrix), when it does not throw
multiply(m, matrix) ==
  fill(NewMatrix(m.rows, matrix.columns),
       [c \in (0..(m.rows - 1)) \X (0..(matrix.columns - 1)) |->
          multiplySum(m, matrix, c[1], c[2], 0, Zero)])

\* mutant: the result keeps the receiver's shape
transposeMutant(m) ==
  fill(NewMatrix(m.rows, m.columns), [c \in Cells(m) |-> at(m, c[2], c[1])])

transpose(m) ==
  fill(NewMatrix(m.columns, m.rows),
       [c \in (0..(m.columns - 1)) \X (0..(m.rows - 1)) |-> at(m, c[2], c[1])])

\* Matrix.fromArray(array) with the default single column
fromArray(array) ==
  LET result == NewMatrix(Len(array), 1)
  IN fill(result,
          [c \in Cells(result) |->
             IF getOffset(result, c[1], c[2]) < Len(array)
             THEN array[getOffset(result, c[1], c[2]) + 1] ELSE Undefined])

(***************************************************************************)
(* SpecMatrix: Matrix calls on sample matrices                             *)
(***************************************************************************)
MatrixSeeds == {1}
SetValues == {Int2Num(9)}

\* a rows x columns matrix holding seed, seed + 1, ... in row-major order
SampleMatrix(rows, columns, seed) ==
  [rows |-> rows, columns |-> columns,
   data |-> [i \in 1..(rows * columns) |-> Int2Num(seed + i - 1)]]

MatrixSamples ==
  {SampleMatrix(r, c, s) : r \in 1..MaxDim, c \in 1..MaxDim, s \in MatrixSeeds}

NoMatrix == NewMatrix(0, 0)

NoCall ==
  [op |-> "none", a |-> NoMatrix, b |-> NoMatrix, row |-> 0, column |-> 0,
   value |-> Zero, threw |-> FALSE, out |-> NoMatrix, ret |-> Undefined]

\* the network variables, idle while SpecMatrix runs
MutOff ==
  [on |-> FALSE, slot |-> 0, layer |-> 0, phase |-> "none", rate |-> Zero,
   values |-> <<>>, picks |-> <<>>]

NetIdle ==
  /\ nets = <<>>
  /\ mut = MutOff
  /\ last = [op |-> "none"]
  /\ ops = 0
  /\ topology = <<>>

InitMatrix ==
  /\ mA \in MatrixSamples
  /\ mB \in {SampleMatrix(r, c, 2) : r \in 1..MaxDim, c \in 1..MaxDim}
  /\ mRes = NoCall
  /\ NetIdle
  /\ HostIdle
  /\ ObjectsIdle

MatMultiply ==
  /\ mRes' = [NoCall EXCEPT !.op = "multiply", !.a = mA, !.b = mB,
                !.threw = multiplyThrows(mA, mB),
                !.out = IF multiplyThrows(mA, mB) THEN NoMatrix
                        ELSE multiply(mA, mB)]
  /\ UNCHANGED <<mA, mB, nvars, hvars, heap>>

MatTranspose ==
  /\ mRes' = [NoCall EXCEPT !.op = "transpose", !.a = mA,
                !.out = transpose(mA)]
  /\ UNCHANGED <<mA, mB, nvars, hvars, heap>>

MatGet ==
  \E row \in 0..MaxDim, column \in 0..MaxDim :
    /\ mRes' = [NoCall EXCEPT !.op = "get", !.a = mA, !.row = row,
                  !.column = column,
                  !.threw = get(mA, row, column).threw,
                  !.ret = get(mA, row, column).value]
    /\ UNCHANGED <<mA, mB, nvars, hvars, heap>>

MatSet ==
  \E row \in 0..MaxDim, column \in 0..MaxDim, value \in SetValues :
    /\ ops < MaxSets
    /\ ops' = ops + 1
    /\ mA' = set(mA, row, column, value).m
    /\ mRes' = [NoCall EXCEPT !.op = "set", !.a = mA, !.row = row,
                  !.column = column, !.value = value,
                  !.threw = set(mA, row, column, value).threw,
                  !.ret = set(mA, row, column, value).value]
    /\ UNCHANGED <<mB, nets, mut, last, topology, hvars, heap>>

\* the callback of the sample map call: value + row + column + 1
MapSample(m) ==
  [c \in Cells(m) |-> NumAdd(at(m, c[1], c[2]), Int2Num(c[1] + c[2] + 1))]

\* mA.at(row, column); the indexed read of the typed array has no throwing
\* path
MatAt ==
  \E row \in 0..MaxDim, column \in 0..MaxDim :
    /\ mRes' = [NoCall EXCEPT !.op = "at", !.a = mA, !.row = row,
                  !.column = column, !.ret = at(mA, row, column)]
    /\ UNCHANGED <<mA, mB, nvars, hvars, heap>>

\* mA.map(callback)
MatMap ==
  /\ mA' = mapCall(mA, MapSample(mA)).this
  /\ mRes' = [NoCall EXCEPT !.op = "map", !.a = mA, !.b = mB,
                !.out = mapCall(mA, MapSample(mA)).result]
  /\ UNCHANGED <<mB, nvars, hvars, heap>>

\* mA.add(matrix), the argument being mB or the receiver itself
MatAdd ==
  \E matrix \in {mA, mB} :
    LET call == mapCall(mA, [c \in Cells(mA) |->
                               NumAdd(at(mA, c[1], c[2]),
                                      at(matrix, c[1], c[2]))])
    IN /\ mA' = call.this
       /\ mRes' = [NoCall EXCEPT !.op = "add", !.a = mA, !.b = matrix,
                     !.out = add(mA, matrix)]
       /\ UNCHANGED <<mB, nvars, hvars, heap>>

\* mA.subtract(mB)
MatSubtract ==
  LET call == mapCall(mA, [c \in Cells(mA) |->
                             NumSub(at(mA, c[1], c[2]), at(mB, c[1], c[2]))])
  IN /\ mA' = call.this
     /\ mRes' = [NoCall EXCEPT !.op = "subtract", !.a = mA, !.b = mB,
                   !.out = subtract(mA, mB)]
     /\ UNCHANGED <<mB, nvars, hvars, heap>>

\* mA.fill(value) and mA.fill((row, column) => row - column)
MatFill ==
  /\ ops < MaxSets
  /\ ops' = ops + 1
  /\ \/ \E value \in SetValues :
          /\ mA' = fillValue(mA, value)
          /\ mRes' = [NoCall EXCEPT !.op = "fill", !.a = mA, !.value = value]
     \/ /\ mA' = fill(mA, [c \in Cells(mA) |-> Int2Num(c[1] - c[2])])
        /\ mRes' = [NoCall EXCEPT !.op = "fill", !.a = mA]
  /\ UNCHANGED <<mB, nets, mut, last, topology, hvars, heap>>

NextMatrix ==
  \/ MatMultiply
  \/ MatTranspose
  \/ MatGet
  \/ MatSet
  \/ MatAt
  \/ MatMap
  \/ MatAdd
  \/ MatSubtract
  \/ MatFill

SpecMatrix == InitMatrix /\ [][NextMatrix]_vars

(***************************************************************************)
(* Claims about Matrix                                                     *)
(***************************************************************************)
\* sum over k in [0, n) of a[row][k] * b[k][column]
RECURSIVE DotProduct(_, _, _, _, _)
DotProduct(a, b, row, column, n) ==
  IF n = 0 THEN Zero
  ELSE NumAdd(DotProduct(a, b, row, column, n - 1),
              NumMul(a.data[row * a.columns + n],
                     b.data[(n - 1) * b.columns + column + 1]))

\* C2: multiply throws exactly when the receiver's column count differs from
\* the argument's row count; otherwise the result is (R1 x C2) and its
\* element (r, c) is the dot product of receiver row r and argument column c.
C2_MultiplyContract ==
  mRes.op = "multiply" =>
    /\ mRes.threw <=> (mRes.a.columns # mRes.b.rows)
    /\ ~mRes.threw =>
         /\ mRes.out.rows = mRes.a.rows
         /\ mRes.out.columns = mRes.b.columns
         /\ Len(mRes.out.data) = mRes.a.rows * mRes.b.columns
         /\ \A r \in 0..(mRes.a.rows - 1), c \in 0..(mRes.b.columns - 1) :
              mRes.out.data[r * mRes.b.columns + c + 1]
                = DotProduct(mRes.a, mRes.b, r, c, mRes.a.columns)

C2_Witness ==
  /\ mRes.op = "multiply"
  /\ ~mRes.threw
  /\ mRes.a.rows = 2 /\ mRes.a.columns = 2 /\ mRes.b.columns = 2

C2_WitnessThrow ==
  mRes.op = "multiply" /\ mRes.threw

\* C3: transpose of an (R x C) matrix is (C x R) with result[c][r] = M[r][c],
\* and transposing the result gives back M, shape and elements.
C3_TransposeInvolution ==
  mRes.op = "transpose" =>
    /\ mRes.out.rows = mRes.a.columns
    /\ mRes.out.columns = mRes.a.rows
    /\ Len(mRes.out.data) = mRes.a.rows * mRes.a.columns
    /\ \A r \in 0..(mRes.a.rows - 1), c \in 0..(mRes.a.columns - 1) :
         mRes.out.data[c * mRes.a.rows + r + 1]
           = mRes.a.data[r * mRes.a.columns + c + 1]
    /\ transpose(mRes.out) = mRes.a

C3_Witness ==
  /\ mRes.op = "transpose"
  /\ mRes.a.rows = 1 /\ mRes.a.columns = 2
  /\ mRes.out.rows = 2

\* C4: for row, column >= 0, get and set throw exactly when the flat offset
\* row * columns + column is >= the buffer length, and then the buffer is
\* unchanged; otherwise set stores the value at that offset, changes nothing
\* else and returns the value stored there before (get returns it).
C4_GetSetBounds ==
  mRes.op \in {"get", "set"} =>
    LET offset == mRes.row * mRes.a.columns + mRes.column
    IN /\ mRes.threw <=> (offset >= Len(mRes.a.data))
       /\ mRes.threw => mA = mRes.a
       /\ (~mRes.threw /\ mRes.op = "get") =>
            /\ mA = mRes.a
            /\ mRes.ret = mRes.a.data[offset + 1]
       /\ (~mRes.threw /\ mRes.op = "set") =>
            /\ mA.rows = mRes.a.rows
            /\ mA.columns = mRes.a.columns
            /\ mA.data = [mRes.a.data EXCEPT ![offset + 1] = mRes.value]
            /\ mRes.ret = mRes.a.data[offset + 1]

\* a set whose (row, column) is out of range while its offset is in range
C4_Witness ==
  /\ mRes.op = "set"
  /\ ~mRes.threw
  /\ mRes.column >= mRes.a.columns
  /\ mRes.ret # mRes.value

C4_WitnessThrow ==
  /\ mRes.op = "set"
  /\ mRes.threw
  /\ mRes.row * mRes.a.columns + mRes.column = Len(mRes.a.data)

\* C16: at never throws, returns the element stored at (row, column) when
\* both are in range, and returns undefined whenever row >= rows or
\* column >= columns.
C16_AtAbsent ==
  mRes.op = "at" =>
    /\ ~mRes.threw
    /\ (mRes.row < mRes.a.rows /\ mRes.column < mRes.a.columns) =>
         mRes.ret = mRes.a.data[mRes.row * mRes.a.columns + mRes.column + 1]
    /\ (mRes.row >= mRes.a.rows \/ mRes.column >= mRes.a.columns) =>
         mRes.ret = Undefined

(***************************************************************************)
(* NeuralMath (neural/math.ts)                                             *)
(***************************************************************************)
\* floor(log2(n / d)) for positive integers n and d
RECURSIVE Log2Floor(_, _)
Log2Floor(n, d) ==
  IF n < d THEN Log2Floor(2 * n, d) - 1
  ELSE IF n >= 2 * d THEN Log2Floor(n, 2 * d) + 1
  ELSE 0

\* the largest value of Math.trunc(Math.random() * (max - min) + min) for
\* integers 0 <= min < max, in double precision.  Math.random() is in
\* [0, 1), so the product is at most the double next below max - min, which
\* is 2^(e - 52) below it, e being the largest exponent with
\* 2^e < max - min, which is Log2Floor(2 * (max - min) - 1, 2).  With
\* min = 0 nothing is added and the draw stays below max.  With min > 0 the
\* sum is rounded to a double, and the doubles next below max are
\* 2^(E - 52) apart, E being the largest exponent with 2^E < max: when
\* e < E the sum is no further from max than half of that and is rounded to
\* max itself (a tie goes to max, whose significand is even)
randomTop(min, max) ==
  IF min > 0 /\ Log2Floor(2 * (max - min) - 1, 2) < Log2Floor(2 * max - 1, 2)
  THEN max ELSE max - 1

\* Math.trunc(NeuralMath.random(min, max)) for integers 0 <= min <= max:
\* every whole number from min up to the largest draw (min when equal)
randomInts(min, max) ==
  IF max > min THEN min..randomTop(min, max) ELSE {min}

\* the Set `values` of randomSet is kept as the sequence of its members in
\* the order they were first added, the order a Set iterates in
SetMembers(values) == {values[i] : i \in 1..Len(values)}

\* values.add(number): a number the Set holds already leaves it as it is, a
\* new one comes last
SetAdd(values, number) ==
  IF number \in SetMembers(values) THEN values ELSE Append(values, number)

\* one pass of the do-while loop of randomSet: TRUE when it loops again
randomSetContinues(values, size) == Len(values) < size

\* [...values]: the members of the Set as an array, in insertion order
SetToArray(values) == [i \in 1..Len(values) |-> values[i]]

(***************************************************************************)
(* Activation functions (neural/functions/linear.ts, relu.ts)              *)
(***************************************************************************)
Linear(scale) == [kind |-> "linear", scale |-> scale]
ReLU(scale) == [kind |-> "relu", scale |-> scale]
LeakyReLU(alpha, scale) == [kind |-> "leaky", alpha |-> alpha, scale |-> scale]

generate(activation, value) ==
  IF activation.kind = "linear" THEN NumMul(value, activation.scale)
  ELSE IF activation.kind = "leaky"
  THEN NumMul(IF NumNeg(value) THEN NumMul(value, activation.alpha) ELSE value,
              activation.scale)
  ELSE IF NumNeg(value) THEN Zero ELSE NumMul(value, activation.scale)

\* mutant: the positive branch of the derivatives is taken from 0 on
derivativeMutant(activation, value) ==
  IF activation.kind = "linear" THEN activation.scale
  ELSE IF activation.kind = "leaky"
  THEN NumMul(IF ~NumNeg(value) THEN One ELSE activation.alpha,
              activation.scale)
  ELSE IF ~NumNeg(value) THEN activation.scale ELSE Zero

derivative(activation, value) ==
  IF activation.kind = "linear" THEN activation.scale
  ELSE IF activation.kind = "leaky"
  THEN NumMul(IF NumPos(value) THEN One ELSE activation.alpha,
              activation.scale)
  ELSE IF NumPos(value) THEN activation.scale ELSE Zero

(***************************************************************************)
(* SpecFunction: generate and derivative calls on one ReLU or LeakyReLU     *)
(* object                                                                  *)
(***************************************************************************)
FunctionScales == {One, Rat(1, 2), Int2Num(2), Int2Num(-1)}
FunctionAlphas == {Zero, Rat(1, 4), Int2Num(2)}
FunctionInputs ==
  {Int2Num(-2), Int2Num(-1), Rat(-1, 2), Zero, Rat(1, 2), One, Int2Num(2), NaN}

\* `made` keeps the constructor's arguments, `activation` is the object
InitFunction ==
  /\ \/ \E scale \in FunctionScales :
          last = [op |-> "none", made |-> <<"relu", Zero, scale>>,
                  activation |-> ReLU(scale), x |-> Zero, value |-> Undefined]
     \/ \E alpha \in FunctionAlphas, scale \in FunctionScales :
          last = [op |-> "none", made |-> <<"leaky", alpha, scale>>,
                  activation |-> LeakyReLU(alpha, scale), x |-> Zero,
                  value |-> Undefined]
  /\ nets = <<>>
  /\ mut = MutOff
  /\ ops = 0
  /\ topology = <<>>
  /\ mA = NoMatrix
  /\ mB = NoMatrix
  /\ mRes = NoCall
  /\ HostIdle
  /\ ObjectsIdle

\* activation.generate(x): no field of the object is assigned
FnGenerate ==
  \E x \in FunctionInputs :
    /\ last' = [last EXCEPT !.op = "generate", !.x = x,
                            !.value = generate(last.activation, x)]
    /\ UNCHANGED <<nets, mut, ops, topology, mA, mB, mRes, hvars, heap>>

\* activation.derivative(x): no field of the object is assigned
FnDerivative ==
  \E x \in FunctionInputs :
    /\ last' = [last EXCEPT !.op = "derivative", !.x = x,
                            !.value = derivative(last.activation, x)]
    /\ UNCHANGED <<nets, mut, ops, topology, mA, mB, mRes, hvars, heap>>

NextFunction == FnGenerate \/ FnDerivative

SpecFunction == InitFunction /\ [][NextFunction]_vars

\* C18: after any sequence of calls on a function built with (alpha, scale),
\* ReLU.generate(x) is 0 for x < 0 and x * scale otherwise, ReLU.derivative(x)
\* is scale for x > 0 and 0 otherwise, LeakyReLU.generate(x) is
\* (x < 0 ? x * alpha : x) * scale and LeakyReLU.derivative(x) is
\* (x > 0 ? 1 : alpha) * scale; ReLU(1) maps -1 to 0 and 2 to 2.
C18_ReluFamily ==
  LET kind == last.made[1]
      alpha == last.made[2]
      scale == last.made[3]
      x == last.x
      negative == x.k = "num" /\ x.n < 0
      positive == x.k = "num" /\ x.n > 0
  IN /\ (last.op = "generate" /\ kind = "relu") =>
          last.value = IF negative THEN Zero ELSE NumMul(x, scale)
     /\ (last.op = "derivative" /\ kind = "relu") =>
          last.value = IF positive THEN scale ELSE Zero
     /\ (last.op = "generate" /\ kind = "leaky") =>
          last.value
            = NumMul(IF negative THEN NumMul(x, alpha) ELSE x, scale)
     /\ (last.op = "derivative" /\ kind = "leaky") =>
          last.value = NumMul(IF positive THEN One ELSE alpha, scale)
     /\ (last.op = "generate" /\ kind = "relu" /\ scale = One) =>
          /\ x = Int2Num(-1) => last.value = Zero
          /\ x = Int2Num(2) => last.value = Int2Num(2)

\* LeakyReLU.derivative(0) with alpha # 1 and a scale other than 1
C18_Witness ==
  /\ last.op = "derivative"
  /\ last.made[1] = "leaky"
  /\ last.x = Zero
  /\ last.made[2] = Rat(1, 4)
  /\ last.made[3] = Int2Num(2)
  /\ last.value = Rat(1, 2)

C18_WitnessRelu ==
  /\ last.op = "generate"
  /\ last.made = <<"relu", Zero, One>>
  /\ last.x = Int2Num(2)
  /\ last.value = Int2Num(2)

(***************************************************************************)
(* NeuralLayer (neural/layer.ts)                                           *)
(***************************************************************************)
\* mutant: the bias is allocated with one row per output neuron
NewLayerMutant(input, output, activation) ==
  [input |-> input, output |-> output, activation |-> activation,
   weight |-> NewMatrix(input, output), bias |-> NewMatrix(output, 1)]

\* new NeuralLayer(input, output, activation)
NewLayer(input, output, activation) ==
  [input |-> input, output |-> output, activation |-> activation,
   weight |-> NewMatrix(input, output), bias |-> NewMatrix(input, 1)]

\* mutant: the bias is not added
processMutant(layer, input) ==
  IF multiplyThrows(layer.weight, input)
  THEN [threw |-> TRUE, m |-> NoMatrix]
  ELSE [threw |-> FALSE,
        m |-> LET sum == multiply(layer.weight, input)
              IN map(sum, [c \in Cells(sum) |->
                             generate(layer.activation, at(sum, c[1], c[2]))])]

\* process(input): [threw, m]
process(layer, input) ==
  IF multiplyThrows(layer.weight, input)
  THEN [threw |-> TRUE, m |-> NoMatrix]
  ELSE [threw |-> FALSE,
        m |-> LET sum == add(multiply(layer.weight, input), layer.bias)
              IN map(sum, [c \in Cells(sum) |->
                             generate(layer.activation, at(sum, c[1], c[2]))])]

\* the loop of #crossWeight from (offset1, offset2) on: [threw, m]
RECURSIVE crossWeightLoop(_, _, _, _, _, _)
crossWeightLoop(target, source1, source2, offset1, offset2, half) ==
  IF offset1 <= half
  THEN LET row1 == getRow(source1, offset1)
           row2 == getRow(source2, offset2)
           column1 == getColumn(source1, offset1)
           column2 == getColumn(source2, offset2)
           value1 == get(source1, row1, column1)
           value2 == get(source2, row2, column2)
           set1 == set(target, row1, column1, value2.value)
           set2 == set(set1.m, row2, column2, value1.value)
       IN IF value1.threw \/ value2.threw \/ set1.threw
          THEN [threw |-> TRUE, m |-> target]
          ELSE IF set2.threw
          THEN [threw |-> TRUE, m |-> set1.m]
          ELSE crossWeightLoop(set2.m, source1, source2,
                               offset1 + 1, offset2 - 1, half)
  ELSE [threw |-> FALSE, m |-> target]

\* mutant: the walk stops before the midpoint (offset1 < half)
crossWeightMutant(target, source1, source2) ==
  crossWeightLoop(target, source1, source2, 0, MatrixSize(target) - 1,
                  (MatrixSize(target) \div 2) - 1)

crossWeight(target, source1, source2) ==
  crossWeightLoop(target, source1, source2, 0, MatrixSize(target) - 1,
                  MatrixSize(target) \div 2)

\* the loop of #crossBias from (row1, row2) on: [threw, m]
RECURSIVE crossBiasLoop(_, _, _, _, _, _)
crossBiasLoop(target, source1, source2, row1, row2, half) ==
  IF row1 < half
  THEN LET value1 == get(source1, row1, 0)
           value2 == get(source2, row2, 0)
           set1 == set(target, row1, 0, value2.value)
           set2 == set(set1.m, row2, 0, value1.value)
       IN IF value1.threw \/ value2.threw \/ set1.threw
          THEN [threw |-> TRUE, m |-> target]
          ELSE IF set2.threw
          THEN [threw |-> TRUE, m |-> set1.m]
          ELSE crossBiasLoop(set2.m, source1, source2, row1 + 1, row2 - 1, half)
  ELSE [threw |-> FALSE, m |-> target]

\* mutant: the walk includes the midpoint (row1 <= half)
crossBiasMutant(target, source1, source2) ==
  crossBiasLoop(target, source1, source2, 0, MatrixSize(target) - 1,
                (MatrixSize(target) \div 2) + 1)

crossBias(target, source1, source2) ==
  crossBiasLoop(target, source1, source2, 0, MatrixSize(target) - 1,
                MatrixSize(target) \div 2)

\* NeuralLayer.fromCrossover(layer1, layer2): [threw, layer, layer1, layer2],
\* layer being the `result` the call allocates and layer1, layer2 the two
\* arguments when the call ends: #crossBias and #crossWeight call set on
\* the matrices of `result` only and get on those of the arguments.  When
\* #crossBias throws the call ends there and #crossWeight never runs, so
\* result.weight is as the constructor left it
LayerFromCrossover(layer1, layer2) ==
  LET result == NewLayer(layer1.input, layer1.output, layer1.activation)
      bias == crossBias(result.bias, layer1.bias, layer2.bias)
      weight == crossWeight(result.weight, layer1.weight, layer2.weight)
  IN IF bias.threw
     THEN [threw |-> TRUE,
           layer |-> [result EXCEPT !.bias = bias.m],
           layer1 |-> layer1,
           layer2 |-> layer2]
     ELSE [threw |-> weight.threw,
           layer |-> [result EXCEPT !.bias = bias.m, !.weight = weight.m],
           layer1 |-> layer1,
           layer2 |-> layer2]

\* Math.round(matrix.size * rate): the set size asked of randomSet
mutateSize(matrix, rate) == MathRound(NumMul(Int2Num(MatrixSize(matrix)), rate))

\* the for-of loop of #mutateWeight over indexes[i..], adding randoms[i]
RECURSIVE mutateWeightLoop(_, _, _, _)
mutateWeightLoop(weight, indexes, randoms, i) ==
  IF i <= Len(indexes)
  THEN LET row == getRow(weight, indexes[i])
           column == getColumn(weight, indexes[i])
           current == get(weight, row, column)
           stored == set(weight, row, column,
                         NumAdd(current.value, randoms[i]))
       IN IF current.threw \/ stored.threw
          THEN [threw |-> TRUE, m |-> weight]
          ELSE mutateWeightLoop(stored.m, indexes, randoms, i + 1)
  ELSE [threw |-> FALSE, m |-> weight]

\* the for-of loop of #mutateBias over indexes[i..], adding randoms[i]
RECURSIVE mutateBiasLoop(_, _, _, _)
mutateBiasLoop(target, indexes, randoms, i) ==
  IF i <= Len(indexes)
  THEN LET current == get(target, indexes[i], 0)
           stored == set(target, indexes[i], 0,
                         NumAdd(current.value, randoms[i]))
       IN IF current.threw \/ stored.threw
          THEN [threw |-> TRUE, m |-> target]
          ELSE mutateBiasLoop(stored.m, indexes, randoms, i + 1)
  ELSE [threw |-> FALSE, m |-> target]

\* NeuralLayer.randomize(layer, min, max), randoms[k] being the value of the
\* k-th call of NeuralMath.random(min, max)
randomize(layer, randoms) ==
  [layer EXCEPT
     !.bias = fill(layer.bias,
                   [c \in Cells(layer.bias) |->
                      randoms[getOffset(layer.bias, c[1], c[2]) + 1]]),
     !.weight = fill(layer.weight,
                     [c \in Cells(layer.weight) |->
                        randoms[MatrixSize(layer.bias)
                                + getOffset(layer.weight, c[1], c[2]) + 1]])]

\* mutant: the new bias is computed from the layer's weight
adjustMutant(layer, weight, bias) ==
  [layer EXCEPT !.weight = add(layer.weight, weight),
                !.bias = add(layer.weight, bias)]

\* NeuralLayer.adjust(layer, weight, bias)
adjust(layer, weight, bias) ==
  [layer EXCEPT !.weight = add(layer.weight, weight),
                !.bias = add(layer.bias, bias)]

\* the objects of an adjust(layer, weight, bias) call when it returns: the
\* layer, whose #weight and #bias are assigned the matrices add returns;
\* `held`, the two Matrix objects that were the layer's #weight and #bias
\* when the call began; `deltas`, the two argument matrices
adjustCall(layer, weight, bias) ==
  [layer |-> adjust(layer, weight, bias),
   held |-> [weight |-> addCall(layer.weight, weight).this,
             bias |-> addCall(layer.bias, bias).this],
   deltas |-> [weight |-> addCall(layer.weight, weight).matrix,
               bias |-> addCall(layer.bias, bias).matrix]]

(***************************************************************************)
(* NeuralNetwork (neural/network.ts)                                       *)
(***************************************************************************)
\* mutant: the layer is built as (last, neurons) instead of (neurons, last)
initializeMutant(sizes, activation) ==
  [k \in 1..(Len(sizes) - 1) |-> NewLayer(sizes[k], sizes[k + 1], activation)]

\* #initialize(layers): one layer per adjacent pair of sizes
initialize(sizes, activation) ==
  [k \in 1..(Len(sizes) - 1) |-> NewLayer(sizes[k + 1], sizes[k], activation)]

NewNetwork(sizes, rate, activation) ==
  [layers |-> IF Len(sizes) = 0 THEN <<>> ELSE initialize(sizes, activation),
   activation |-> activation, rate |-> rate]

\* the loop of #processAll from layer k on: [threw, output]
RECURSIVE processAllLoop(_, _, _)
processAllLoop(layers, k, output) ==
  IF k <= Len(layers)
  THEN LET result == process(layers[k], output[Len(output)])
       IN IF result.threw THEN [threw |-> TRUE, output |-> output]
          ELSE processAllLoop(layers, k + 1, Append(output, result.m))
  ELSE [threw |-> FALSE, output |-> output]

processAll(network, input) ==
  processAllLoop(network.layers, 1, <<fromArray(input)>>)

hadamardMultiply(first, second) ==
  map(first, [c \in Cells(first) |->
                NumMul(at(first, c[1], c[2]), at(second, c[1], c[2]))])

scalarMultiply(input, value) ==
  map(input, [c \in Cells(input) |-> NumMul(at(input, c[1], c[2]), value)])

\* mutant: the errors are scaled by the rate only, without the derivative
gradientDescentMutant(network, input, errors) ==
  scalarMultiply(errors, network.rate)

gradientDescent(network, input, errors) ==
  scalarMultiply(
    hadamardMultiply(
      map(input, [c \in Cells(input) |->
                    derivative(network.activation, at(input, c[1], c[2]))]),
      errors),
    network.rate)

\* mutant: the error goes back through the weight the layer had before
\* adjust
propagateMutant(before, layer, errors) ==
  multiply(transpose(before.weight), errors)

\* errors = layer.weight.transpose().multiply(errors) after adjust: `layer`
\* is the layer as adjust left it, `before` as the iteration found it
propagate(before, layer, errors) ==
  multiply(transpose(layer.weight), errors)

\* the backward loop of train at `index` (output[index] is output[index + 1]
\* here, #layers[index - 1] is layers[index]): [threw, network, errors, held],
\* errors being the successive values of the variable `errors`, the last
\* one first, and held the Matrix objects that were #weight and #bias of
\* the layers adjusted so far when train began, in layer order
RECURSIVE trainLoop(_, _, _, _, _)
trainLoop(network, output, errors, held, index) ==
  IF index > 0
  THEN LET bias == gradientDescent(network, output[index + 1], errors[1])
           previous == transpose(output[index])
           weight == multiply(bias, previous)
           call == adjustCall(network.layers[index], weight, bias)
           layer == call.layer
           adjusted == [network EXCEPT !.layers[index] = layer]
       IN IF multiplyThrows(bias, previous)
          THEN [threw |-> TRUE, network |-> network, errors |-> errors,
                held |-> held]
          ELSE IF index > 1
          THEN IF multiplyThrows(transpose(layer.weight), errors[1])
               THEN [threw |-> TRUE, network |-> adjusted, errors |-> errors,
                     held |-> <<call.held>> \o held]
               ELSE trainLoop(adjusted, output,
                              <<propagate(network.layers[index], layer,
                                          errors[1])>> \o errors,
                              <<call.held>> \o held, index - 1)
          ELSE trainLoop(adjusted, output, errors, <<call.held>> \o held,
                         index - 1)
  ELSE [threw |-> FALSE, network |-> network, errors |-> errors,
        held |-> held]

\* train(input, expect): [threw, network, errors, held]
train(network, input, expect) ==
  LET forward == processAll(network, input)
      output == forward.output
  IN IF forward.threw
     THEN [threw |-> TRUE, network |-> network, errors |-> <<>>,
           held |-> <<>>]
     ELSE trainLoop(network, output,
                    <<subtract(fromArray(expect), output[Len(output)])>>,
                    <<>>, Len(output) - 1)

\* predict(input): [threw, value, network], network being the receiver when
\* the call ends: #processAll and process assign no field of the network
\* or of a layer, and every matrix call they make returns a new matrix
predict(network, input) ==
  LET forward == processAll(network, input)
  IN IF forward.threw
     THEN [threw |-> TRUE, value |-> <<>>, network |-> network]
     ELSE [threw |-> FALSE, value |-> forward.output[Len(forward.output)].data,
           network |-> network]

\* the loop of NeuralNetwork.fromCrossover from layer k on:
\* [threw, network, network1, network2], network being the `result` and
\* network1, network2 the two arguments as the layer calls leave them
RECURSIVE networkCrossoverLoop(_, _, _, _)
networkCrossoverLoop(result, network1, network2, k) ==
  IF k <= Len(network1.layers)
  THEN IF k > Len(network2.layers)
       THEN [threw |-> TRUE, network |-> result,
             network1 |-> network1, network2 |-> network2]
       ELSE LET crossed == LayerFromCrossover(network1.layers[k],
                                              network2.layers[k])
                after1 == [network1 EXCEPT !.layers[k] = crossed.layer1]
                after2 == [network2 EXCEPT !.layers[k] = crossed.layer2]
            IN IF crossed.threw
               THEN [threw |-> TRUE, network |-> result,
                     network1 |-> after1, network2 |-> after2]
               ELSE networkCrossoverLoop(
                      [result EXCEPT !.layers = Append(@, crossed.layer)],
                      after1, after2, k + 1)
  ELSE [threw |-> FALSE, network |-> result,
        network1 |-> network1, network2 |-> network2]

\* mutant: the child takes the first parent's learning rate
NetworkFromCrossoverMutant(network1, network2) ==
  networkCrossoverLoop(
    NewNetwork(<<>>, network1.rate, network1.activation),
    network1, network2, 1)

\* NeuralNetwork.fromCrossover(network1, network2): [threw, network]
NetworkFromCrossover(network1, network2) ==
  networkCrossoverLoop(
    NewNetwork(<<>>, NumHalf(NumAdd(network1.rate, network2.rate)),
               network1.activation),
    network1, network2, 1)

\* the value of the k-th call (k >= 1) of NeuralMath.random(-1, 1) in the
\* randomize call on layer number l, for the random stream `seed`: a
\* multiple of 1/4 in [-1, 1)
RandomValue(seed, l, k) ==
  Rat(((seed * (k - 1 + l) + (seed - 1) \div 2) % 8) - 4, 4)

\* NeuralNetwork.fromRandom(layers, rate, activation)
fromRandom(sizes, rate, activation, seed) ==
  LET result == NewNetwork(sizes, rate, activation)
  IN [result EXCEPT !.layers =
        [l \in 1..Len(result.layers) |->
           randomize(result.layers[l],
                     [k \in 1..(MatrixSize(result.layers[l].bias)
                                 + MatrixSize(result.layers[l].weight)) |->
                        RandomValue(seed, l, k)])]]

(***************************************************************************)
(* Spec: a NeuralNetwork (nets[1]), a second one of the same topology      *)
(* (nets[2]) to cross it with, and the calls on them                       *)
(***************************************************************************)
Topologies ==
  {<<1, 1>>, <<2, 1>>, <<1, 2>>, <<2, 2>>, <<4, 1>>, <<1, 3>>, <<2, 1, 2>>,
   <<1, 1, 2>>}

Activations == {Linear(One), ReLU(One)}

\* the i-th value NeuralMath.random(-1, 1) gives inside one mutate loop
MutateRandom(i) == IF i % 2 = 1 THEN Int2Num(-1) ELSE Rat(1, 2)

MutateRates == {Zero, Rat(1, 2), One}

InputVectors(n) ==
  {[i \in 1..n |-> One], [i \in 1..n |-> IF i % 2 = 1 THEN One ELSE Zero]}

ExpectVectors(n) ==
  {[i \in 1..n |-> IF i = 1 THEN One ELSE Zero],
   [i \in 1..n |-> IF i = n THEN One ELSE Zero]}

\* every value of the sequence / network is inside the exactly computed range
ExactSeq(seq) == \A i \in 1..Len(seq) : seq[i].k # "inexact"

Exact(network) ==
  /\ network.rate.k # "inexact"
  /\ \A l \in 1..Len(network.layers) :
       /\ ExactSeq(network.layers[l].weight.data)
       /\ ExactSeq(network.layers[l].bias.data)

MatrixIdle ==
  /\ mA = NoMatrix
  /\ mB = NoMatrix
  /\ mRes = NoCall

Init ==
  /\ topology \in Topologies
  /\ \E activation \in Activations :
       \E first \in {NewNetwork(topology, One, activation),
                     fromRandom(topology, One, activation, 1)} :
         nets = <<first, fromRandom(topology, Rat(1, 2), activation, 3)>>
  /\ mut = MutOff
  /\ last = [op |-> "none"]
  /\ ops = 0
  /\ MatrixIdle
  /\ HostIdle
  /\ ObjectsIdle

\* nets[1] = new NeuralNetwork(topology, 1, activation)
Construct ==
  /\ ~mut.on
  /\ ops < MaxOps
  /\ ops' = ops + 1
  /\ nets' = [nets EXCEPT ![1] = NewNetwork(topology, One, nets[1].activation)]
  /\ last' = [op |-> "construct", sizes |-> topology,
              network |-> NewNetwork(topology, One, nets[1].activation)]
  /\ UNCHANGED <<mut, topology, mvars, hvars, heap>>

\* nets[1].train(input, expect)
Train ==
  /\ ~mut.on
  /\ ops < MaxOps
  /\ \E input \in InputVectors(topology[1]),
        expect \in ExpectVectors(topology[Len(topology)]) :
     \E result \in {train(nets[1], input, expect)} :
       /\ Exact(result.network)
       /\ ops' = ops + 1
       /\ nets' = [nets EXCEPT ![1] = result.network]
       /\ last' = [op |-> "train", input |-> input, expect |-> expect,
                   before |-> nets[1], threw |-> result.threw,
                   errors |-> result.errors, held |-> result.held]
       /\ UNCHANGED <<mut, topology, mvars, hvars, heap>>

\* nets[1].predict(input)
Predict ==
  /\ ~mut.on
  /\ \E input \in InputVectors(topology[1]) :
     \E result \in {predict(nets[1], input)} :
       /\ ExactSeq(result.value)
       /\ nets' = [nets EXCEPT ![1] = result.network]
       /\ last' = [op |-> "predict", input |-> input, before |-> nets[1],
                   threw |-> result.threw, value |-> result.value]
       /\ UNCHANGED <<mut, ops, topology, mvars, hvars, heap>>

\* nets[1] = NeuralNetwork.fromCrossover(nets[first], nets[second])
Crossover ==
  /\ ~mut.on
  /\ ops < MaxOps
  /\ \E first \in {1, 2} :
     \E second \in {3 - first} :
     \E result \in {NetworkFromCrossover(nets[first], nets[second])} :
       /\ Exact(result.network)
       /\ ops' = ops + 1
       /\ nets' = IF result.threw
                  THEN [nets EXCEPT ![first] = result.network1,
                                    ![second] = result.network2]
                  ELSE [nets EXCEPT ![1] = result.network,
                                    ![2] = IF first = 2 THEN result.network1
                                           ELSE result.network2]
       /\ last' = [op |-> "fromCrossover", network1 |-> nets[first],
                   network2 |-> nets[second], threw |-> result.threw,
                   child |-> result.network, after1 |-> result.network1,
                   after2 |-> result.network2]
       /\ UNCHANGED <<mut, topology, mvars, hvars, heap>>

\* nets[1].layers[index].process(Matrix.fromArray(input)) for an input of any
\* length up to MaxInput
LayerProcess ==
  /\ ~mut.on
  /\ \E index \in 1..Len(nets[1].layers), n \in 1..MaxInput :
     \E input \in InputVectors(n) :
      \E result \in {process(nets[1].layers[index], fromArray(input))} :
         /\ ExactSeq(result.m.data)
         /\ last' = [op |-> "process", index |-> index,
                     layer |-> nets[1].layers[index],
                     input |-> fromArray(input),
                     threw |-> result.threw, out |-> result.m]
         /\ UNCHANGED <<nets, mut, ops, topology, mvars, hvars, heap>>

\* NeuralLayer.fromCrossover(layer1, layer2) on a layer of nets[1] and a layer
\* of nets[2]
LayerCrossover ==
  /\ ~mut.on
  /\ \E index1 \in 1..Len(nets[1].layers), index2 \in 1..Len(nets[2].layers) :
     \E result \in {LayerFromCrossover(nets[1].layers[index1],
                                        nets[2].layers[index2])} :
       /\ nets' = [nets EXCEPT ![1].layers[index1] = result.layer1,
                                ![2].layers[index2] = result.layer2]
       /\ last' = [op |-> "layerCrossover",
                   layer1 |-> nets[1].layers[index1],
                   layer2 |-> nets[2].layers[index2],
                   threw |-> result.threw, layer |-> result.layer,
                   after1 |-> result.layer1, after2 |-> result.layer2]
       /\ UNCHANGED <<mut, ops, topology, mvars, hvars, heap>>

\* NeuralLayer.adjust(layer, weight, bias) on a copy of a layer of nets[1],
\* the deltas being a weight and a bias of nets[2]; Matrix.add has no
\* throwing path, so the call always returns
LayerAdjust ==
  \E index \in 1..Len(nets[1].layers),
     index1 \in 1..Len(nets[2].layers), index2 \in 1..Len(nets[2].layers) :
    LET layer == nets[1].layers[index]
        weight == nets[2].layers[index1].weight
        bias == nets[2].layers[index2].bias
        call == adjustCall(layer, weight, bias)
        result == call.layer
    IN /\ ~mut.on
       /\ ExactSeq(result.weight.data)
       /\ ExactSeq(result.bias.data)
       /\ last' = [op |-> "adjust", layer |-> layer, weight |-> weight,
                   bias |-> bias, threw |-> FALSE, after |-> result,
                   held |-> call.held, deltas |-> call.deltas]
       /\ UNCHANGED <<nets, mut, ops, topology, mvars, hvars, heap>>

\* NeuralNetwork.mutate(nets[1], -1, 1, rate) is entered
MutateBegin ==
  \E rate \in MutateRates :
    /\ ~mut.on
    /\ ops < MaxOps
    /\ ops' = ops + 1
    /\ mut' = [MutOff EXCEPT !.on = TRUE, !.layer = 1, !.phase = "weight",
                             !.rate = rate]
    /\ last' = [op |-> "mutating", rate |-> rate, before |-> nets[1]]
    /\ UNCHANGED <<nets, topology, mvars, hvars, heap>>

\* the matrix the running mutate call is drawing indexes for
MutateTarget ==
  IF mut.phase = "weight" THEN nets[1].layers[mut.layer].weight
  ELSE nets[1].layers[mut.layer].bias

\* the mutate call after the for-of loop over `indexes` of the current matrix
MutateAdvance(indexes) ==
  LET picks == Append(mut.picks, [layer |-> mut.layer, phase |-> mut.phase,
                                  indexes |-> SetMembers(indexes)])
  IN IF mut.phase = "weight"
     THEN [mut EXCEPT !.phase = "bias", !.values = <<>>, !.picks = picks]
     ELSE IF mut.layer < Len(nets[1].layers)
     THEN [mut EXCEPT !.layer = @ + 1, !.phase = "weight", !.values = <<>>,
                      !.picks = picks]
     ELSE [MutOff EXCEPT !.picks = picks]

\* one pass of the do-while loop of randomSet inside the running mutate call;
\* the pass that ends the loop also runs the for-of loop over the indexes
MutateDraw ==
  /\ mut.on
  /\ \E number \in randomInts(0, MatrixSize(MutateTarget) - 1) :
     \E values \in {SetAdd(mut.values, number)} :
       IF randomSetContinues(values, mutateSize(MutateTarget, mut.rate))
       THEN /\ mut' = [mut EXCEPT !.values = values]
            /\ UNCHANGED <<nets, last>>
       ELSE \E indexes \in {SetToArray(values)} :
            \E result \in
                 {IF mut.phase = "weight"
                  THEN mutateWeightLoop(MutateTarget, indexes,
                         [i \in 1..Len(indexes) |-> MutateRandom(i)], 1)
                  ELSE mutateBiasLoop(MutateTarget, indexes,
                         [i \in 1..Len(indexes) |-> MutateRandom(i)], 1)} :
            \E advance \in {MutateAdvance(indexes)} :
              /\ ExactSeq(result.m.data)
              /\ nets' =
                   IF mut.phase = "weight"
                   THEN [nets EXCEPT ![1].layers[mut.layer].weight = result.m]
                   ELSE [nets EXCEPT ![1].layers[mut.layer].bias = result.m]
              /\ mut' = IF result.threw THEN MutOff ELSE advance
              /\ last' = IF result.threw \/ ~advance.on
                         THEN [op |-> "mutate", rate |-> mut.rate,
                               before |-> last.before,
                               threw |-> result.threw,
                               picks |-> advance.picks]
                         ELSE last
  /\ UNCHANGED <<ops, topology, mvars, hvars, heap>>

Next ==
  \/ Construct
  \/ Train
  \/ Predict
  \/ Crossover
  \/ MutateBegin
  \/ MutateDraw

Spec == Init /\ [][Next]_vars

\* SpecLayer: NeuralLayer calls on the layers of a network that is being
\* trained and crossed over
NextLayer ==
  \/ Train
  \/ Crossover
  \/ LayerProcess
  \/ LayerCrossover
  \/ LayerAdjust

SpecLayer == Init /\ [][NextLayer]_vars

(***************************************************************************)
(* Claims about NeuralLayer and NeuralNetwork                              *)
(***************************************************************************)
\* C1: predict on an input of length s0, after any sequence of train, mutate,
\* fromCrossover and predict calls, raises no condition and returns exactly
\* sn values.
C1_PredictShape ==
  last.op = "predict" =>
    /\ ~last.threw
    /\ Len(last.value) = topology[Len(topology)]

C1_Witness ==
  /\ last.op = "predict"
  /\ ops >= 2
  /\ Len(topology) = 3
  /\ Len(last.value) = 2
  /\ last.value[1] # last.value[2]

\* the matrix of a layer that a pick of the last mutate call was drawn for
PickMatrix(network, pick) ==
  IF pick.phase = "weight" THEN network.layers[pick.layer].weight
  ELSE network.layers[pick.layer].bias

\* C5: one mutate call with rate in [0, 1] perturbs exactly
\* round(size * rate) distinct elements of each weight and each bias matrix
\* and leaves every other element unchanged.
C5_MutateCardinality ==
  (last.op = "mutate" /\ ~last.threw) =>
    \A i \in 1..Len(last.picks) :
      LET pick == last.picks[i]
          before == PickMatrix(last.before, pick)
          after == PickMatrix(nets[1], pick)
      IN /\ Cardinality(pick.indexes)
              = MathRound(NumMul(Int2Num(Len(before.data)), last.rate))
         /\ \A offset \in 0..(Len(before.data) - 1) :
              (offset \in pick.indexes)
                <=> (after.data[offset + 1] # before.data[offset + 1])

\* the flattened weight (bias) of layer l of the given network
WeightOf(network, l) == network.layers[l].weight.data
BiasOf(network, l) == network.layers[l].bias.data

CrossoverDone == last.op = "fromCrossover" /\ ~last.threw

\* C6 as stated: child weight k is parent 2's weight S-1-k for k < floor(S/2)
\* and parent 1's weight S-1-k for k >= ceil(S/2).
C6_WeightHalves ==
  CrossoverDone =>
    \A l \in 1..Len(last.child.layers) :
      LET S == Len(WeightOf(last.child, l))
      IN \A k \in 0..(S - 1) :
           /\ k < S \div 2 =>
                WeightOf(last.child, l)[k + 1]
                  = WeightOf(last.network2, l)[S - k]
           /\ k >= (S + 1) \div 2 =>
                WeightOf(last.child, l)[k + 1]
                  = WeightOf(last.network1, l)[S - k]

\* C6 amended: child weight k is parent 2's weight S-1-k for
\* k < floor((S-1)/2) and parent 1's weight S-1-k for k > floor(S/2); the
\* pass at the midpoint leaves parent 1's midpoint there when S is odd and,
\* when S is even, swaps the two middle slots back: child[S/2-1] is parent
\* 1's weight S/2 and child[S/2] is parent 2's weight S/2-1.
C6_WeightWalk ==
  CrossoverDone =>
    \A l \in 1..Len(last.child.layers) :
      LET S == Len(WeightOf(last.child, l))
          half == S \div 2
          child == WeightOf(last.child, l)
          parent1 == WeightOf(last.network1, l)
          parent2 == WeightOf(last.network2, l)
      IN /\ \A k \in 0..(S - 1) :
              /\ k < (S - 1) \div 2 => child[k + 1] = parent2[S - k]
              /\ k > half => child[k + 1] = parent1[S - k]
         /\ S % 2 = 1 => child[half + 1] = parent1[half + 1]
         /\ S % 2 = 0 =>
              /\ child[half] = parent1[half + 1]
              /\ child[half + 1] = parent2[half]

\* a crossover of 1x4 weights whose parents differ at the two middle slots
C6_Witness ==
  /\ CrossoverDone
  /\ topology = <<4, 1>>
  /\ WeightOf(last.network1, 1)[3] # WeightOf(last.network2, 1)[3]
  /\ WeightOf(last.network1, 1)[2] # WeightOf(last.network2, 1)[2]
  /\ WeightOf(last.child, 1)[2] = WeightOf(last.network1, 1)[3]

\* C7: for every i in [0, floor(S/2)) the child's bias i is parent 2's bias
\* S-1-i and the child's bias S-1-i is parent 1's bias i.
C7_BiasWalk ==
  CrossoverDone =>
    \A l \in 1..Len(last.child.layers) :
      LET S == Len(BiasOf(last.child, l))
      IN \A i \in 0..((S \div 2) - 1) :
           /\ BiasOf(last.child, l)[i + 1] = BiasOf(last.network2, l)[S - i]
           /\ BiasOf(last.child, l)[S - i] = BiasOf(last.network1, l)[i + 1]

C7_Witness ==
  /\ CrossoverDone
  /\ Len(BiasOf(last.child, 1)) = 3
  /\ BiasOf(last.network1, 1)[1] # BiasOf(last.network2, 1)[1]
  /\ BiasOf(last.network1, 1)[3] # BiasOf(last.network2, 1)[3]
  /\ BiasOf(last.child, 1)[1] # BiasOf(last.child, 1)[3]

\* C8: every weight and bias element of the child is the element of parent 1
\* or of parent 2 at the mirrored flat index.
C8_ChildFromParents ==
  CrossoverDone =>
    \A l \in 1..Len(last.child.layers) :
      /\ \A k \in 1..Len(WeightOf(last.child, l)) :
           LET mirror == Len(WeightOf(last.child, l)) + 1 - k
           IN WeightOf(last.child, l)[k]
                \in {WeightOf(last.network1, l)[mirror],
                     WeightOf(last.network2, l)[mirror]}
      /\ \A k \in 1..Len(BiasOf(last.child, l)) :
           LET mirror == Len(BiasOf(last.child, l)) + 1 - k
           IN BiasOf(last.child, l)[k]
                \in {BiasOf(last.network1, l)[mirror],
                     BiasOf(last.network2, l)[mirror]}

\* C9: the child network's rate is the mean of the parents' rates, it has as
\* many layers as the first parent, and its layer k is the layer crossover of
\* the parents' layers k.
C9_NetworkCrossover ==
  CrossoverDone =>
    /\ last.child.rate
         = Rat(last.network1.rate.n * last.network2.rate.d
                 + last.network2.rate.n * last.network1.rate.d,
               2 * last.network1.rate.d * last.network2.rate.d)
    /\ Len(last.child.layers) = Len(last.network1.layers)
    /\ \A l \in 1..Len(last.network1.layers) :
         last.child.layers[l]
           = LayerFromCrossover(last.network1.layers[l],
                                last.network2.layers[l]).layer

C9_Witness ==
  /\ CrossoverDone
  /\ Len(last.child.layers) = 2
  /\ last.network1.rate # last.network2.rate
  /\ last.child.rate # last.network1.rate
  /\ nets[1] = last.child

\* C10: every layer keeps weight.rows = bias.rows = N_in, weight.columns =
\* N_out and bias.columns = 1 (with buffers of matching length) after
\* construction and after any sequence of train, mutate and fromCrossover.
LayerShape(layer) ==
  /\ layer.weight.rows = layer.input
  /\ layer.bias.rows = layer.input
  /\ layer.weight.columns = layer.output
  /\ layer.bias.columns = 1
  /\ Len(layer.weight.data) = layer.input * layer.output
  /\ Len(layer.bias.data) = layer.input

C10_LayerShape ==
  \A slot \in 1..Len(nets) :
    \A l \in 1..Len(nets[slot].layers) : LayerShape(nets[slot].layers[l])

C10_Witness ==
  /\ last.op = "train"
  /\ ops >= 2
  /\ nets[1] # last.before
  /\ nets[1].layers[1].output > 1
  /\ nets[1].layers[1].input > 1

\* C11 as stated: for every adjacent pair of layers the output count of layer
\* i equals the input count of layer i+1.
C11_OutputFeedsInput ==
  \A slot \in 1..Len(nets) :
    \A i \in 1..(Len(nets[slot].layers) - 1) :
      nets[slot].layers[i].output = nets[slot].layers[i + 1].input

\* C11 amended: for every adjacent pair of layers the input count of layer i
\* (the rows of its weight, the length of the vector it returns) equals the
\* output count of layer i+1 (the columns of its weight, the length of the
\* vector it accepts).
C11_InputFeedsOutput ==
  \A slot \in 1..Len(nets) :
    \A i \in 1..(Len(nets[slot].layers) - 1) :
      /\ nets[slot].layers[i].input = nets[slot].layers[i + 1].output
      /\ nets[slot].layers[i].weight.rows
           = nets[slot].layers[i + 1].weight.columns

\* a two-layer network with s0 # s2 after two state-changing calls
C11_Witness ==
  /\ Len(topology) = 3
  /\ topology[1] # topology[3]
  /\ ops >= 2
  /\ last.op \in {"train", "mutate"}
  /\ nets[1] # last.before
  /\ nets[1].layers[1].output # nets[1].layers[2].input

\* C12: the constructor called with sizes [s0, ..., sn] makes n layers; layer
\* k (0-based) has input count s_{k+1} and output count s_k, a zero weight
\* of shape (s_{k+1} x s_k) and a zero bias of shape (s_{k+1} x 1).
C12_ConstructorLayers ==
  last.op = "construct" =>
    /\ Len(last.network.layers) = Len(last.sizes) - 1
    /\ \A k \in 1..(Len(last.sizes) - 1) :
         LET layer == last.network.layers[k]
         IN /\ layer.input = last.sizes[k + 1]
            /\ layer.output = last.sizes[k]
            /\ layer.weight.rows = last.sizes[k + 1]
            /\ layer.weight.columns = last.sizes[k]
            /\ layer.weight.data
                 = [i \in 1..(last.sizes[k + 1] * last.sizes[k]) |-> Zero]
            /\ layer.bias.rows = last.sizes[k + 1]
            /\ layer.bias.columns = 1
            /\ layer.bias.data = [i \in 1..last.sizes[k + 1] |-> Zero]

\* a two-layer network rebuilt by the constructor after an earlier call
C12_Witness ==
  /\ last.op = "construct"
  /\ last.sizes = <<1, 1, 2>>
  /\ ops >= 2
  /\ nets[1] = last.network
  /\ Len(nets[1].layers) = 2
  /\ nets[1].layers[2].bias.rows = 2

\* two objects of the same shape
SameShape(a, b) == a.rows = b.rows /\ a.columns = b.columns

\* C14: fromCrossover on two layers of different shapes throws, and adjust
\* with a weight or bias delta shaped unlike the layer's weight or bias
\* throws.
C14_ShapeMismatchThrows ==
  /\ (/\ last.op = "layerCrossover"
      /\ \/ last.layer1.input # last.layer2.input
         \/ last.layer1.output # last.layer2.output) => last.threw
  /\ (/\ last.op = "adjust"
      /\ \/ ~SameShape(last.weight, last.layer.weight)
         \/ ~SameShape(last.bias, last.layer.bias)) => last.threw

\* C15: process throws exactly when input.rows # weight.columns and leaves
\* the layer as it was; for a column vector of weight.columns rows it returns
\* an (N_in x 1) matrix whose element r is
\* generate(sum_k weight[r][k] * input[k] + bias[r]).
C15_ProcessContract ==
  last.op = "process" =>
    /\ last.threw <=> (last.input.rows # last.layer.weight.columns)
    /\ nets[1].layers[last.index] = last.layer
    /\ ~last.threw =>
         /\ last.out.rows = last.layer.input
         /\ last.out.columns = 1
         /\ Len(last.out.data) = last.layer.input
         /\ \A r \in 0..(last.layer.input - 1) :
              last.out.data[r + 1]
                = generate(last.layer.activation,
                           NumAdd(DotProduct(last.layer.weight, last.input,
                                             r, 0, last.layer.weight.columns),
                                  last.layer.bias.data[r + 1]))

\* a process call on a layer with two inputs and non-zero biases, after the
\* network was changed twice
C15_Witness ==
  /\ last.op = "process"
  /\ ~last.threw
  /\ ops >= 2
  /\ last.layer.weight.columns = 2
  /\ last.layer.weight.rows = 2
  /\ last.layer.bias.data[1] # Zero
  /\ last.out.data[1] # last.out.data[2]

C15_WitnessThrow ==
  /\ last.op = "process"
  /\ last.threw
  /\ last.input.rows > last.layer.weight.columns

\* the train call just made returned
TrainDone == last.op = "train" /\ ~last.threw

\* the value `errors` had when train visited layer l of its L layers
ErrorAt(l) == last.errors[l]

\* sum over r in [0, n) of weight[r][c] * errors[r]
RECURSIVE BackSum(_, _, _, _)
BackSum(weight, errors, c, n) ==
  IF n = 0 THEN Zero
  ELSE NumAdd(BackSum(weight, errors, c, n - 1),
              NumMul(weight.data[(n - 1) * weight.columns + c + 1],
                     errors.data[n]))

\* C19: for every layer l, with output[] the forward pass through the
\* network as it was before the call and error the value of `errors` at that
\* layer, the new bias r is the old one plus
\* delta[r] = rate * derivative(output[l][r]) * error[r], the new weight
\* (r, c) is the old one plus delta[r] * output[l-1][c], and the error at the
\* last layer is expect - final output.
C19_TrainDeltas ==
  TrainDone =>
    LET before == last.before
        L == Len(before.layers)
        output == processAll(before, last.input).output
    IN /\ \A r \in 1..Len(last.expect) :
            ErrorAt(L).data[r]
              = NumSub(last.expect[r], output[L + 1].data[r])
       /\ \A l \in 1..L :
            LET old == before.layers[l]
                new == nets[1].layers[l]
            IN \A r \in 0..(old.input - 1) :
                 LET delta ==
                       NumMul(NumMul(derivative(before.activation,
                                                output[l + 1].data[r + 1]),
                                     ErrorAt(l).data[r + 1]),
                              before.rate)
                 IN /\ new.bias.data[r + 1]
                         = NumAdd(old.bias.data[r + 1], delta)
                    /\ \A c \in 0..(old.output - 1) :
                         new.weight.data[r * old.output + c + 1]
                           = NumAdd(old.weight.data[r * old.output + c + 1],
                                    NumMul(delta, output[l].data[c + 1]))

\* a train call on a two-layer network that changed weights and biases of
\* both layers
C19_Witness ==
  /\ TrainDone
  /\ Len(nets[1].layers) = 2
  /\ nets[1].layers[1].weight # last.before.layers[1].weight
  /\ nets[1].layers[1].bias # last.before.layers[1].bias
  /\ nets[1].layers[2].weight # last.before.layers[2].weight
  /\ nets[1].layers[2].bias # last.before.layers[2].bias

\* C20: train propagates the error once for every layer but the first, and
\* the error handed from layer l+1 to layer l is transpose(weight) * error
\* with the weight layer l+1 has after its adjust.
C20_PostUpdatePropagation ==
  TrainDone =>
    LET L == Len(nets[1].layers)
    IN /\ Len(last.errors) = L
       /\ \A l \in 1..(L - 1) :
            LET weight == nets[1].layers[l + 1].weight
            IN /\ ErrorAt(l).rows = weight.columns
               /\ ErrorAt(l).columns = 1
               /\ \A c \in 0..(weight.columns - 1) :
                    ErrorAt(l).data[c + 1]
                      = BackSum(weight, ErrorAt(l + 1), c, weight.rows)

\* a train call where the pre-update weight would have given another error
C20_Witness ==
  /\ TrainDone
  /\ Len(nets[1].layers) = 2
  /\ \E c \in 0..(nets[1].layers[2].weight.columns - 1) :
       ErrorAt(1).data[c + 1]
         # BackSum(last.before.layers[2].weight, ErrorAt(2), c,
                   nets[1].layers[2].weight.rows)

(***************************************************************************)
(* Canvas (core/canvas.ts)                                                 *)
(***************************************************************************)
\* element.width and element.height: two device pixels per grid pixel, so
\* that #pixelWidth and #pixelHeight are exact
CanvasSize == 2 * CanvasPixels

\* the canvas element of the page: one device pixel per grid pixel
PageSize == PagePixels

\* event.buttons: no button pressed, the primary button pressed
MouseButtons == {0, 1}

\* new Canvas(element, pixels)
NewCanvas(width, height, pixels) ==
  [width |-> width, height |-> height, count |-> pixels,
   pixels |-> NewMatrix(pixels, pixels), drawing |-> FALSE]

\* 2^k % d, by squaring
RECURSIVE PowerMod(_, _)
PowerMod(k, d) ==
  IF k = 0 THEN 1 % d
  ELSE IF k % 2 = 1 THEN (2 * PowerMod(k - 1, d)) % d
  ELSE LET half == PowerMod(k \div 2, d) IN (half * half) % d

\* (n * 2^k) % d
ShiftMod(n, k, d) == ((n % d) * PowerMod(k, d)) % d

\* size / pixels in double precision: the quotient is rounded to the nearest
\* number with a 53-bit significand, ties to the even one.  With
\* shift = 52 - floor(log2(size / pixels)) the significand is
\* size * 2^shift / pixels rounded to an integer, and the double is
\* (size + r / 2^shift) / pixels, r being the integer this gives: minus the
\* remainder of the division when it rounds down, pixels minus the remainder
\* when it rounds up, 0 when the quotient is exact
DivideResidue(size, pixels) ==
  LET shift == 52 - Log2Floor(size, pixels)
      rest == ShiftMod(size, shift, pixels)
      odd == 2 * ShiftMod(size, shift - 1, pixels) >= pixels
  IN IF 2 * rest < pixels \/ (2 * rest = pixels /\ ~odd)
     THEN -rest ELSE pixels - rest

\* Math.floor(offset / pixelSize) with pixelSize = size / pixels, both
\* divisions in double precision, for a whole offset >= 0.  The exact
\* quotient offset * pixels / size is either whole or at least 1 / size away
\* from a whole number, so the result is its floor k, but for one case: the
\* exact quotient is the whole number k >= 1 and pixelSize was rounded up
\* (r > 0).  Then offset / pixelSize = k / (1 + r / (size * 2^shift)) is
\* below k, and it is rounded back to k only when it is no further from k
\* than half the spacing 2^(e - 52) of the doubles below k (e the largest
\* exponent with 2^e < k), which is when size * 2^(e - t) >= 2 * k * r for
\* t = floor(log2(size / pixels)); otherwise the double is below k and the
\* floor is k - 1
FloorDivide(offset, size, pixels) ==
  LET r == DivideResidue(size, pixels)
      k == (offset * pixels) \div size
      whole == (offset * pixels) % size = 0
      g == Log2Floor(2 * k - 1, 2) - Log2Floor(size, pixels)
  IN IF whole /\ k >= 1 /\ r > 0
        /\ (IF g >= 0 THEN size * 2^g < 2 * k * r
            ELSE size < 2 * k * r * 2^(-g))
     THEN k - 1
     ELSE k

\* Math.floor(y / #pixelHeight) with #pixelHeight = #height / pixels
getPixelRow(c, y) == FloorDivide(y, c.height, c.count)

\* Math.floor(x / #pixelWidth) with #pixelWidth = #width / pixels
getPixelColumn(c, x) == FloorDivide(x, c.width, c.count)

\* mutant: the click toggles the pixel whether or not the user was drawing
handleClickMutant(c, x, y) ==
  LET row == getPixelRow(c, y)
      column == getPixelColumn(c, x)
      got == get(c.pixels, row, column)
      value == IF got.value = Zero THEN One ELSE Zero
      stored == set(c.pixels, row, column, value)
  IN [threw |-> got.threw \/ stored.threw,
      canvas |-> IF got.threw \/ stored.threw THEN c
                 ELSE [c EXCEPT !.pixels = stored.m, !.drawing = FALSE]]

\* #handleClick(event): [threw, canvas]
handleClick(c, x, y) ==
  LET row == getPixelRow(c, y)
      column == getPixelColumn(c, x)
      got == get(c.pixels, row, column)
      value == IF got.value = Zero THEN One ELSE Zero
      stored == set(c.pixels, row, column, value)
  IN IF ~c.drawing
     THEN [threw |-> got.threw \/ stored.threw,
           canvas |-> IF got.threw \/ stored.threw THEN c
                      ELSE [c EXCEPT !.pixels = stored.m, !.drawing = FALSE]]
     ELSE [threw |-> FALSE, canvas |-> [c EXCEPT !.drawing = FALSE]]

\* #handleMove(event): [threw, canvas]
handleMove(c, buttons, x, y) ==
  LET stored == set(c.pixels, getPixelRow(c, y), getPixelColumn(c, x), One)
  IN IF buttons = 1
     THEN [threw |-> stored.threw,
           canvas |-> IF stored.threw THEN c
                      ELSE [c EXCEPT !.pixels = stored.m, !.drawing = TRUE]]
     ELSE [threw |-> FALSE, canvas |-> c]

\* clear(): #pixels.fill(0); draw() changes the 2D context only
canvasClear(c) == [c EXCEPT !.pixels = fillValue(c.pixels, Zero)]

\* get data(): a copy of the pixel buffer
canvasData(c) == c.pixels.data

(***************************************************************************)
(* SpecHost: the page (index.ts), its promise-based Worker endpoint        *)
(* (core/worker.ts) and the neural worker behind it                        *)
(* (workers/neural.worker.ts)                                              *)
(***************************************************************************)
\* what a listener call can do: return (TRUE) or throw (FALSE)
ListenerOutcomes == {TRUE, FALSE}

\* the names the neural worker registers a listener for with worker.listen
Listeners == {"train", "predict"}

\* mutant: the train button is left enabled
enableControlsMutant(state) ==
  [inputs |-> state, predict |-> state, train |-> TRUE, clear |-> state]

\* enableControls(state): the `disabled` flags of the four groups of controls
enableControls(state) ==
  [inputs |-> state, predict |-> state, train |-> state, clear |-> state]

\* Worker.emit(name, data) on the page: [host, chan] afterwards
emit(h, c, name, data) ==
  LET id == h.promiseIds
  IN [host |-> [h EXCEPT !.promiseIds = id + 1,
                         !.eventPromises = @ \cup {[id |-> id, name |-> name]}],
      chan |-> [c EXCEPT !.inbox =
                  Append(@, [id |-> id, name |-> name, data |-> data])]]

\* Worker.#notifyPromises(id, status, ...results) on the page: the promise
\* of the id is taken out of the map and resolved or rejected.  `settled` is
\* the log of the resolve and reject calls made so far, `ignored` the ids of
\* the replies that found no promise
\* mutant: the promise is left in the map after it is settled
notifyPromisesMutant(h, reply) ==
  LET promises == {p \in h.eventPromises : p.id = reply.id}
  IN IF promises = {} THEN [h EXCEPT !.ignored = @ \cup {reply.id}]
     ELSE [h EXCEPT !.settled = Append(@, [id |-> reply.id,
                                           outcome |-> IF reply.status
                                                       THEN "resolve"
                                                       ELSE "reject",
                                           value |-> reply.answer])]

notifyPromises(h, reply) ==
  LET promises == {p \in h.eventPromises : p.id = reply.id}
  IN IF promises = {} THEN [h EXCEPT !.ignored = @ \cup {reply.id}]
     ELSE [h EXCEPT !.eventPromises = @ \ promises,
                    !.settled = Append(@, [id |-> reply.id,
                                           outcome |-> IF reply.status
                                                       THEN "resolve"
                                                       ELSE "reject",
                                           value |-> reply.answer])]

\* updateAnswer(outputs): the class input of the best output is checked, or
\* none when no output is high enough (answer 0)
updateAnswer(h, answer) == [h EXCEPT !.checked = answer]

\* the rest of a click handler once the promise it awaits is settled with
\* `reply`; `awaiting` holds the handlers suspended at their await.  A
\* resolved await goes on to enableControls(true) and, in the predict
\* handler, to updateAnswer; a rejected await ends the handler there.  A
\* promise no handler awaits (a direct emit) has no continuation
resumeHandler(h, reply) ==
  LET handlers == {a \in h.awaiting : a.id = reply.id}
      name == (CHOOSE a \in handlers : TRUE).handler
      enabled == [h EXCEPT !.awaiting = @ \ handlers,
                           !.controls = enableControls(TRUE)]
  IN IF handlers = {} THEN h
     ELSE IF ~reply.status THEN [h EXCEPT !.awaiting = @ \ handlers]
     ELSE IF name = "predict" THEN updateAnswer(enabled, reply.answer)
     ELSE enabled

InitHost ==
  /\ host = [controls |-> enableControls(TRUE),
             canvas |-> NewCanvas(PageSize, PageSize, PagePixels),
             checked |-> 0, counters |-> [i \in 1..MaxClass |-> 0],
             promiseIds |-> 0, eventPromises |-> {}, awaiting |-> {},
             settled |-> <<>>, ignored |-> {}]
  /\ chan = [inbox |-> <<>>, running |-> <<>>, outbox |-> <<>>,
             unrequested |-> 0]
  /\ NetIdle
  /\ MatrixIdle
  /\ ObjectsIdle

\* a click on the predict button; a disabled button dispatches no click
ClickPredict ==
  LET sent == emit([host EXCEPT !.controls = enableControls(FALSE)], chan,
                   "predict", canvasData(host.canvas))
  IN /\ host.controls.predict
     /\ host.promiseIds < MaxClicks
     /\ host' = [sent.host EXCEPT !.awaiting =
                   @ \cup {[id |-> host.promiseIds, handler |-> "predict"]}]
     /\ chan' = sent.chan
     /\ UNCHANGED <<mvars, nvars, heap>>

\* a click on the train button; the counter of the checked class input is
\* incremented while the expected vector is built
ClickTrain ==
  LET sent == emit([host EXCEPT !.controls = enableControls(FALSE),
                                !.counters =
                                   [i \in 1..MaxClass |->
                                      IF i = host.checked THEN @[i] + 1
                                      ELSE @[i]]],
                   chan, "train", canvasData(host.canvas))
  IN /\ host.controls.train
     /\ host.promiseIds < MaxClicks
     /\ host' = [sent.host EXCEPT !.awaiting =
                   @ \cup {[id |-> host.promiseIds, handler |-> "train"]}]
     /\ chan' = sent.chan
     /\ UNCHANGED <<mvars, nvars, heap>>

\* a click on the clear button: canvas.clear()
ClickClear ==
  /\ host.controls.clear
  /\ host' = [host EXCEPT !.canvas = canvasClear(@)]
  /\ UNCHANGED <<chan, mvars, nvars, heap>>

\* a click on a class input that is enabled and not checked
SelectInput ==
  \E index \in 1..MaxClass :
    /\ host.controls.inputs
    /\ host.checked # index
    /\ host' = [host EXCEPT !.checked = index]
    /\ UNCHANGED <<chan, mvars, nvars, heap>>

\* a click event on the canvas of the page at (offsetX, offsetY) = (x, y);
\* enableControls leaves the canvas alone, so the event is handled while a
\* request is pending too
PageCanvasClick ==
  \E x \in 0..(PageSize - 1), y \in 0..(PageSize - 1) :
    /\ host' = [host EXCEPT !.canvas = handleClick(@, x, y).canvas]
    /\ UNCHANGED <<chan, mvars, nvars, heap>>

\* a mousemove event on the canvas of the page with the given buttons pressed
PageCanvasMove ==
  \E x \in 0..(PageSize - 1), y \in 0..(PageSize - 1),
     buttons \in MouseButtons :
    /\ host' = [host EXCEPT !.canvas = handleMove(@, buttons, x, y).canvas]
    /\ UNCHANGED <<chan, mvars, nvars, heap>>

\* the worker's #onMessage takes the next request and #notifyListeners runs
\* the listener of its name; message events are dispatched one at a time.
\* A request whose name has no listener (events === void 0) is dropped
WorkerMessage ==
  \E outcome \in ListenerOutcomes, answer \in 0..MaxClass :
    /\ chan.inbox # <<>>
    /\ chan.running = <<>>
    /\ (chan.inbox[1].name # "predict" \/ ~outcome) => answer = 0
    /\ chan.inbox[1].name \notin Listeners => outcome
    /\ chan' = IF chan.inbox[1].name \in Listeners
               THEN [chan EXCEPT !.inbox = Tail(@),
                                 !.running = <<[id |-> chan.inbox[1].id,
                                                name |-> chan.inbox[1].name,
                                                status |-> outcome,
                                                answer |-> answer]>>]
               ELSE [chan EXCEPT !.inbox = Tail(@)]
    /\ UNCHANGED <<host, mvars, nvars, heap>>

\* #notifyListeners posts the reply [id, '', status, ...]
WorkerReply ==
  /\ chan.running # <<>>
  /\ chan' = [chan EXCEPT !.running = <<>>,
                          !.outbox = Append(@, [id |-> chan.running[1].id,
                                                name |-> "",
                                                status |-> chan.running[1].status,
                                                answer |-> chan.running[1].answer])]
  /\ UNCHANGED <<host, mvars, nvars, heap>>

\* the page's #onMessage takes the next reply (name = ''): #notifyPromises
\* settles the promise of its id, and the handler awaiting that promise is
\* resumed in the microtasks of the message event
HostMessage ==
  /\ chan.outbox # <<>>
  /\ host' = IF \E p \in host.eventPromises : p.id = chan.outbox[1].id
             THEN resumeHandler(notifyPromises(host, chan.outbox[1]),
                                chan.outbox[1])
             ELSE notifyPromises(host, chan.outbox[1])
  /\ chan' = [chan EXCEPT !.outbox = Tail(@)]
  /\ UNCHANGED <<mvars, nvars, heap>>

NextHost ==
  \/ ClickPredict
  \/ ClickTrain
  \/ ClickClear
  \/ SelectInput
  \/ PageCanvasClick
  \/ PageCanvasMove
  \/ WorkerMessage
  \/ WorkerReply
  \/ HostMessage

SpecHost == InitHost /\ [][NextHost]_vars

\* C17: while a request is outstanding (emitted and not answered) the
\* predict, train and clear controls are disabled; at most one request is
\* outstanding, and the worker holds at most one request, queued or running.
C17_OneRequest ==
  /\ Cardinality(host.eventPromises) <= 1
  /\ host.eventPromises # {} =>
       /\ ~host.controls.predict
       /\ ~host.controls.train
       /\ ~host.controls.clear
  /\ Len(chan.inbox) + Len(chan.running) + Len(chan.outbox) <= 1
  /\ Len(chan.inbox) + Len(chan.running) + Len(chan.outbox)
       = Cardinality(host.eventPromises)

\* the worker runs the listener of a second request after the first one was
\* answered
C17_Witness ==
  /\ host.promiseIds = 2
  /\ Len(host.settled) = 1
  /\ host.settled[1].id = 0
  /\ host.settled[1].outcome = "resolve"
  /\ chan.running # <<>>
  /\ chan.running[1].id = 1
  /\ host.eventPromises # {}
  /\ ~host.controls.train

(***************************************************************************)
(* SpecMutate: the mutate calls of Spec with the running call scheduled.   *)
(* The call is synchronous, so its do-while loop keeps running, and        *)
(* Math.random() gives every number of its range with positive             *)
(* probability: while some number moves the call on (it is a new member    *)
(* of the Set, or it ends the loop), a pass draws such a number.  A pass   *)
(* that draws a member again and loops leaves the state as it is.          *)
(***************************************************************************)
\* a pass of the loop as far as the position of the call goes (the matrix
\* the for-of loop writes is left out): the Set grows, or the loop ends and
\* the call moves to the next matrix or returns
MutatePass ==
  /\ mut.on
  /\ \E number \in randomInts(0, MatrixSize(MutateTarget) - 1) :
       mut' = IF randomSetContinues(SetAdd(mut.values, number),
                                    mutateSize(MutateTarget, mut.rate))
              THEN [mut EXCEPT !.values = SetAdd(@, number)]
              ELSE MutateAdvance(SetAdd(mut.values, number))

NextMutate ==
  \/ MutateBegin
  \/ MutateDraw

SpecMutate == Init /\ [][NextMutate]_vars /\ WF_mut(MutatePass)

\* C21: every NeuralNetwork.mutate call that is entered returns, whatever
\* the layer shapes and the rate in [0, 1] (rate 1 on a matrix of two or
\* more elements included): the loop of randomSet finishes for every matrix
C21_MutateReturns == mut.on ~> ~mut.on

\* C22: the running mutate call (rate > 0) draws its indexes from the whole
\* flattened index space of the matrix it perturbs: every flat index k in
\* [0, size), the last index size - 1 included, is a number a pass of the
\* randomSet loop can draw, and so an element mutate can perturb
C22_WholeIndexSpace ==
  (mut.on /\ mut.rate # Zero) =>
    \A k \in 0..(MatrixSize(MutateTarget) - 1) :
      k \in randomInts(0, MatrixSize(MutateTarget) - 1)

(***************************************************************************)
(* Objects by reference.  A Matrix, NeuralLayer or NeuralNetwork object is *)
(* named by its position in heap.matrices, heap.layers or heap.networks,   *)
(* which hold the objects in the order they were allocated; a layer holds  *)
(* the references of its #weight and #bias, a network those of its         *)
(* #layers.  `new` puts an object at the end, an assignment to an element  *)
(* or to a field changes the object where it is, and a callback reads the  *)
(* objects as they are when it runs.  No object is ever freed.             *)
(***************************************************************************)
\* the value of a function of one argument: in [x \in {e} |-> body] the
\* result e of a call is computed once and named x in what follows it
Bound(f) == f[CHOOSE x \in DOMAIN f : TRUE]

\* new Matrix(rows, columns): the new object is the last of h.matrices
NewMatrixRef(h, rows, columns) ==
  [h EXCEPT !.matrices = Append(@, NewMatrix(rows, columns))]

\* the callbacks handed to map, called with (value, row, column): the arrow
\* functions of add, subtract, #hadamardMultiply, #scalarMultiply, process
\* and #gradientDescent, and the sample callback of SpecMatrix; the matrix a
\* callback closes over is read when the callback runs
mapCallback(h, callback, value, row, column) ==
  CASE callback.kind = "add" ->
         NumAdd(value, at(h.matrices[callback.matrix], row, column))
    [] callback.kind = "subtract" ->
         NumSub(value, at(h.matrices[callback.matrix], row, column))
    [] callback.kind = "hadamard" ->
         NumMul(value, at(h.matrices[callback.matrix], row, column))
    [] callback.kind = "scalar" -> NumMul(value, callback.value)
    [] callback.kind = "generate" -> generate(callback.activation, value)
    [] callback.kind = "derivative" ->
         derivative(callback.activation, value)
    [] callback.kind = "sample" -> NumAdd(value, Int2Num(row + column + 1))

\* the callbacks handed to fill, called with (row, column): the arrow
\* functions of map, multiply, transpose and fromArray, and the sample
\* callback (row, column) => row - column
fillCallback(h, callback, row, column) ==
  CASE callback.kind = "map" ->
         mapCallback(h, callback.callback,
                     at(h.matrices[callback.this], row, column), row, column)
    [] callback.kind = "multiply" ->
         multiplySum(h.matrices[callback.this], h.matrices[callback.matrix],
                     row, column, 0, Zero)
    [] callback.kind = "transpose" ->
         at(h.matrices[callback.this], column, row)
    [] callback.kind = "array" ->
         LET offset == getOffset(h.matrices[callback.result], row, column)
         IN IF offset < Len(callback.array) THEN callback.array[offset + 1]
            ELSE Undefined
    [] callback.kind = "sample" -> Int2Num(row - column)

\* this.fill(callback) from the element at `offset` on: the two loops visit
\* the elements in the order of their offsets, and each pass stores what the
\* callback returns into this.#data before the next pass calls it
RECURSIVE fillRef(_, _, _, _)
fillRef(h, this, callback, offset) ==
  LET m == h.matrices[this]
      row == offset \div m.columns
      column == offset % m.columns
      value == fillCallback(h, callback, row, column)
  IN IF offset < MatrixSize(m)
     THEN fillRef([h EXCEPT !.matrices[this] =
                              DataPut(m, getOffset(m, row, column), value)],
                  this, callback, offset + 1)
     ELSE h

\* mutant: map allocates nothing, it fills the receiver and returns it
mapRefMutant(h, this, callback) ==
  [heap |-> fillRef(h, this, [kind |-> "map", this |-> this,
                              callback |-> callback], 0),
   ref |-> this, threw |-> FALSE]

\* this.map(callback): [heap, ref, threw], ref being the matrix returned
mapRef(h, this, callback) ==
  LET allocated == NewMatrixRef(h, h.matrices[this].rows,
                                h.matrices[this].columns)
      result == Len(allocated.matrices)
  IN [heap |-> fillRef(allocated, result,
                       [kind |-> "map", this |-> this,
                        callback |-> callback], 0),
      ref |-> result, threw |-> FALSE]

\* this.add(matrix)
addRef(h, this, matrix) ==
  mapRef(h, this, [kind |-> "add", matrix |-> matrix])

\* this.subtract(matrix)
subtractRef(h, this, matrix) ==
  mapRef(h, this, [kind |-> "subtract", matrix |-> matrix])

\* this.multiply(matrix): it throws before it allocates
multiplyRef(h, this, matrix) ==
  LET allocated == NewMatrixRef(h, h.matrices[this].rows,
                                h.matrices[matrix].columns)
      result == Len(allocated.matrices)
  IN IF multiplyThrows(h.matrices[this], h.matrices[matrix])
     THEN [heap |-> h, ref |-> 0, threw |-> TRUE]
     ELSE [heap |-> fillRef(allocated, result,
                            [kind |-> "multiply", this |-> this,
                             matrix |-> matrix], 0),
           ref |-> result, threw |-> FALSE]

\* this.transpose()
transposeRef(h, this) ==
  LET allocated == NewMatrixRef(h, h.matrices[this].columns,
                                h.matrices[this].rows)
      result == Len(allocated.matrices)
  IN [heap |-> fillRef(allocated, result,
                       [kind |-> "transpose", this |-> this], 0),
      ref |-> result, threw |-> FALSE]

\* this.set(row, column, value): [heap, threw, value (the previous one)]
setRef(h, this, row, column, value) ==
  LET call == set(h.matrices[this], row, column, value)
  IN [heap |-> [h EXCEPT !.matrices[this] = call.m],
      threw |-> call.threw, value |-> call.value]

\* Matrix.fromArray(array) with the default single column
fromArrayRef(h, array) ==
  LET allocated == NewMatrixRef(h, Len(array), 1)
      result == Len(allocated.matrices)
  IN [heap |-> fillRef(allocated, result,
                       [kind |-> "array", array |-> array,
                        result |-> result], 0),
      ref |-> result, threw |-> FALSE]

\* new NeuralLayer(input, output, activation): #weight is allocated before
\* #bias, and the new layer is the last of h.layers
NewLayerRef(h, input, output, activation) ==
  LET weight == NewMatrixRef(h, input, output)
      bias == NewMatrixRef(weight, input, 1)
  IN [bias EXCEPT !.layers =
        Append(@, [input |-> input, output |-> output,
                   activation |-> activation,
                   weight |-> Len(weight.matrices),
                   bias |-> Len(bias.matrices)])]

\* mutant: process adds the product into the layer's bias where it is
processRefMutant(h, layer, input) ==
  Bound([product \in {multiplyRef(h, h.layers[layer].weight, input)} |->
    IF product.threw THEN product
    ELSE Bound([sum \in {fillRef(product.heap, h.layers[layer].bias,
                           [kind |-> "map", this |-> h.layers[layer].bias,
                            callback |-> [kind |-> "add",
                                          matrix |-> product.ref]], 0)} |->
           mapRef(sum, h.layers[layer].bias,
                  [kind |-> "generate",
                   activation |-> h.layers[layer].activation])])])

\* layer.process(input): [heap, ref, threw]
processRef(h, layer, input) ==
  Bound([product \in {multiplyRef(h, h.layers[layer].weight, input)} |->
    IF product.threw THEN product
    ELSE Bound([sum \in {addRef(product.heap, product.ref,
                                h.layers[layer].bias)} |->
           mapRef(sum.heap, sum.ref,
                  [kind |-> "generate",
                   activation |-> h.layers[layer].activation])])])

\* the loop of #crossWeight(target, source1, source2) from (offset1, offset2)
\* on: [heap, threw]
RECURSIVE crossWeightRef(_, _, _, _, _, _, _)
crossWeightRef(h, target, source1, source2, offset1, offset2, half) ==
  IF offset1 <= half
  THEN LET row1 == getRow(h.matrices[source1], offset1)
           row2 == getRow(h.matrices[source2], offset2)
           column1 == getColumn(h.matrices[source1], offset1)
           column2 == getColumn(h.matrices[source2], offset2)
           value1 == get(h.matrices[source1], row1, column1)
           value2 == get(h.matrices[source2], row2, column2)
           set1 == setRef(h, target, row1, column1, value2.value)
           set2 == setRef(set1.heap, target, row2, column2, value1.value)
       IN IF value1.threw \/ value2.threw \/ set1.threw
          THEN [heap |-> h, threw |-> TRUE]
          ELSE IF set2.threw
          THEN [heap |-> set1.heap, threw |-> TRUE]
          ELSE crossWeightRef(set2.heap, target, source1, source2,
                              offset1 + 1, offset2 - 1, half)
  ELSE [heap |-> h, threw |-> FALSE]

\* the loop of #crossBias(target, source1, source2) from (row1, row2) on:
\* [heap, threw]
RECURSIVE crossBiasRef(_, _, _, _, _, _, _)
crossBiasRef(h, target, source1, source2, row1, row2, half) ==
  IF row1 < half
  THEN LET value1 == get(h.matrices[source1], row1, 0)
           value2 == get(h.matrices[source2], row2, 0)
           set1 == setRef(h, target, row1, 0, value2.value)
           set2 == setRef(set1.heap, target, row2, 0, value1.value)
       IN IF value1.threw \/ value2.threw \/ set1.threw
          THEN [heap |-> h, threw |-> TRUE]
          ELSE IF set2.threw
          THEN [heap |-> set1.heap, threw |-> TRUE]
          ELSE crossBiasRef(set2.heap, target, source1, source2,
                            row1 + 1, row2 - 1, half)
  ELSE [heap |-> h, threw |-> FALSE]

\* mutant: no layer is allocated, the crossover is written into layer1
LayerFromCrossoverRefMutant(h, layer1, layer2) ==
  LET result == layer1
      size1 == MatrixSize(h.matrices[h.layers[result].bias])
      size2 == MatrixSize(h.matrices[h.layers[result].weight])
  IN Bound([bias \in {crossBiasRef(h, h.layers[result].bias,
                        h.layers[layer1].bias, h.layers[layer2].bias,
                        0, size1 - 1, size1 \div 2)} |->
       IF bias.threw THEN [heap |-> bias.heap, ref |-> 0, threw |-> TRUE]
       ELSE Bound([weight \in {crossWeightRef(bias.heap,
                                 h.layers[result].weight,
                                 h.layers[layer1].weight,
                                 h.layers[layer2].weight,
                                 0, size2 - 1, size2 \div 2)} |->
              IF weight.threw
              THEN [heap |-> weight.heap, ref |-> 0, threw |-> TRUE]
              ELSE [heap |-> weight.heap, ref |-> result,
                    threw |-> FALSE]])])

\* NeuralLayer.fromCrossover(layer1, layer2): [heap, ref, threw], ref being
\* the layer returned; #crossBias and #crossWeight are given the two
\* matrices of `result` as target
LayerFromCrossoverRef(h, layer1, layer2) ==
  Bound([allocated \in {NewLayerRef(h, h.layers[layer1].input,
                                    h.layers[layer1].output,
                                    h.layers[layer1].activation)} |->
    LET result == Len(allocated.layers)
        size1 == MatrixSize(
                   allocated.matrices[allocated.layers[result].bias])
        size2 == MatrixSize(
                   allocated.matrices[allocated.layers[result].weight])
    IN Bound([bias \in {crossBiasRef(allocated,
                          allocated.layers[result].bias,
                          h.layers[layer1].bias, h.layers[layer2].bias,
                          0, size1 - 1, size1 \div 2)} |->
         IF bias.threw THEN [heap |-> bias.heap, ref |-> 0, threw |-> TRUE]
         ELSE Bound([weight \in {crossWeightRef(bias.heap,
                                   allocated.layers[result].weight,
                                   h.layers[layer1].weight,
                                   h.layers[layer2].weight,
                                   0, size2 - 1, size2 \div 2)} |->
                IF weight.threw
                THEN [heap |-> weight.heap, ref |-> 0, threw |-> TRUE]
                ELSE [heap |-> weight.heap, ref |-> result,
                      threw |-> FALSE]])])])

\* mutant: adjust adds the deltas into the layer's matrices where they are
adjustRefMutant(h, layer, weight, bias) ==
  Bound([first \in {fillRef(h, h.layers[layer].weight,
                      [kind |-> "map", this |-> h.layers[layer].weight,
                       callback |-> [kind |-> "add", matrix |-> weight]],
                      0)} |->
    fillRef(first, h.layers[layer].bias,
            [kind |-> "map", this |-> h.layers[layer].bias,
             callback |-> [kind |-> "add", matrix |-> bias]], 0)])

\* NeuralLayer.adjust(layer, weight, bias): the heap afterwards; each field
\* is assigned the matrix add returns, #weight before #bias is computed
adjustRef(h, layer, weight, bias) ==
  Bound([first \in {addRef(h, h.layers[layer].weight, weight)} |->
    Bound([assigned \in {[first.heap EXCEPT
                            !.layers[layer].weight = first.ref]} |->
      Bound([second \in {addRef(assigned, assigned.layers[layer].bias,
                                bias)} |->
        [second.heap EXCEPT !.layers[layer].bias = second.ref]])])])

\* the number of members of the array randomSet(0, matrix.size - 1, size)
\* returns for size = Math.round(matrix.size * rate): the do-while loop adds
\* a member before it tests values.size < size
randomSetLength(matrix, rate) ==
  IF mutateSize(matrix, rate) > 1 THEN mutateSize(matrix, rate) ELSE 1

\* randomSet returns when the numbers it can draw are that many
randomSetReturns(matrix, rate) ==
  randomSetLength(matrix, rate)
    <= Cardinality(randomInts(0, MatrixSize(matrix) - 1))

\* one array randomSet can return: the numbers it can draw, from `seed` on,
\* in the order they were drawn
randomSetSample(matrix, rate, seed) ==
  [i \in 1..randomSetLength(matrix, rate) |->
     (seed + i - 1) % Cardinality(randomInts(0, MatrixSize(matrix) - 1))]

\* NeuralLayer.mutate(layer, -1, 1, rate): [heap, threw]; #mutateWeight and
\* then #mutateBias call get and set on the one matrix they are given
mutateLayerRef(h, layer, rate, seed) ==
  LET indexes1 == randomSetSample(h.matrices[h.layers[layer].weight], rate,
                                  seed)
      weight == mutateWeightLoop(h.matrices[h.layers[layer].weight],
                  indexes1, [i \in 1..Len(indexes1) |-> MutateRandom(i)], 1)
      first == [h EXCEPT !.matrices[h.layers[layer].weight] = weight.m]
      indexes2 == randomSetSample(first.matrices[h.layers[layer].bias], rate,
                                  seed)
      bias == mutateBiasLoop(first.matrices[h.layers[layer].bias],
                indexes2, [i \in 1..Len(indexes2) |-> MutateRandom(i)], 1)
  IN IF weight.threw THEN [heap |-> first, threw |-> TRUE]
     ELSE [heap |-> [first EXCEPT !.matrices[h.layers[layer].bias] = bias.m],
           threw |-> bias.threw]

\* the loop of #processAll from layer k on: [heap, threw, output], output
\* being the references of the matrices pushed so far
RECURSIVE processAllRef(_, _, _, _)
processAllRef(h, network, k, output) ==
  IF k <= Len(h.networks[network].layers)
  THEN Bound([result \in {processRef(h, h.networks[network].layers[k],
                                     output[Len(output)])} |->
         IF result.threw
         THEN [heap |-> result.heap, threw |-> TRUE, output |-> output]
         ELSE processAllRef(result.heap, network, k + 1,
                            Append(output, result.ref))])
  ELSE [heap |-> h, threw |-> FALSE, output |-> output]

\* #gradientDescent(input, errors): the derivative map, #hadamardMultiply
\* and #scalarMultiply, each a map call
gradientDescentRef(h, network, input, errors) ==
  Bound([derived \in {mapRef(h, input,
                        [kind |-> "derivative",
                         activation |-> h.networks[network].activation])} |->
    Bound([product \in {mapRef(derived.heap, derived.ref,
                          [kind |-> "hadamard", matrix |-> errors])} |->
      mapRef(product.heap, product.ref,
             [kind |-> "scalar", value |-> h.networks[network].rate])])])

\* the backward loop of train at `index` (output[index] is output[index + 1]
\* here, #layers[index - 1] is layers[index]): [heap, threw]
RECURSIVE trainLoopRef(_, _, _, _, _)
trainLoopRef(h, network, output, errors, index) ==
  IF index > 0
  THEN
    Bound([bias \in {gradientDescentRef(h, network, output[index + 1],
                                        errors)} |->
    Bound([previous \in {transposeRef(bias.heap, output[index])} |->
    Bound([weight \in {multiplyRef(previous.heap, bias.ref,
                                   previous.ref)} |->
      IF weight.threw THEN [heap |-> weight.heap, threw |-> TRUE]
      ELSE
        Bound([adjusted \in {adjustRef(weight.heap,
                               h.networks[network].layers[index],
                               weight.ref, bias.ref)} |->
          IF index > 1
          THEN
            Bound([back \in {transposeRef(adjusted,
                     adjusted.layers[
                       h.networks[network].layers[index]].weight)} |->
            Bound([next \in {multiplyRef(back.heap, back.ref, errors)} |->
              IF next.threw THEN [heap |-> next.heap, threw |-> TRUE]
              ELSE trainLoopRef(next.heap, network, output, next.ref,
                                index - 1)])])
          ELSE trainLoopRef(adjusted, network, output, errors,
                            index - 1)])])])])
  ELSE [heap |-> h, threw |-> FALSE]

\* network.train(input, expect): [heap, threw]
trainRef(h, network, input, expect) ==
  Bound([first \in {fromArrayRef(h, input)} |->
  Bound([forward \in {processAllRef(first.heap, network, 1,
                                    <<first.ref>>)} |->
    IF forward.threw THEN [heap |-> forward.heap, threw |-> TRUE]
    ELSE
      Bound([expected \in {fromArrayRef(forward.heap, expect)} |->
      Bound([errors \in {subtractRef(expected.heap, expected.ref,
                           forward.output[Len(forward.output)])} |->
        trainLoopRef(errors.heap, network, forward.output, errors.ref,
                     Len(forward.output) - 1)])])])])

\* network.predict(input): [heap, threw, value], value being the copy of the
\* elements that the data getter of the last output returns
predictRef(h, network, input) ==
  Bound([first \in {fromArrayRef(h, input)} |->
  Bound([forward \in {processAllRef(first.heap, network, 1,
                                    <<first.ref>>)} |->
    [heap |-> forward.heap, threw |-> forward.threw,
     value |-> IF forward.threw THEN <<>>
               ELSE forward.heap.matrices[
                      forward.output[Len(forward.output)]].data]])])

\* the loop of NeuralNetwork.fromCrossover from layer k on: [heap, threw];
\* a layer that network2 does not have is undefined, and fromCrossover
\* throws on it once it has allocated its result
RECURSIVE networkCrossoverRef(_, _, _, _, _)
networkCrossoverRef(h, result, network1, network2, k) ==
  IF k <= Len(h.networks[network1].layers)
  THEN IF k > Len(h.networks[network2].layers)
       THEN [heap |-> NewLayerRef(h,
                        h.layers[h.networks[network1].layers[k]].input,
                        h.layers[h.networks[network1].layers[k]].output,
                        h.layers[h.networks[network1].layers[k]].activation),
             threw |-> TRUE]
       ELSE LET crossed == LayerFromCrossoverRef(h,
                             h.networks[network1].layers[k],
                             h.networks[network2].layers[k])
            IN IF crossed.threw
               THEN [heap |-> crossed.heap, threw |-> TRUE]
               ELSE networkCrossoverRef(
                      [crossed.heap EXCEPT !.networks[result].layers =
                                             Append(@, crossed.ref)],
                      result, network1, network2, k + 1)
  ELSE [heap |-> h, threw |-> FALSE]

\* NeuralNetwork.fromCrossover(network1, network2): [heap, ref, threw]; the
\* result is the last of h.networks, with no layers until the loop pushes
\* them
NetworkFromCrossoverRef(h, network1, network2) ==
  Bound([allocated \in
           {[h EXCEPT !.networks =
               Append(@, [layers |-> <<>>,
                          activation |-> h.networks[network1].activation,
                          rate |-> NumHalf(NumAdd(h.networks[network1].rate,
                                             h.networks[network2].rate))])]}
         |->
    Bound([crossed \in {networkCrossoverRef(allocated,
                          Len(allocated.networks), network1, network2,
                          1)} |->
      [heap |-> crossed.heap,
       ref |-> IF crossed.threw THEN 0 ELSE Len(allocated.networks),
       threw |-> crossed.threw]])])

\* the loop of NeuralNetwork.mutate(network, -1, 1, rate) from layer k on:
\* [heap, threw]
RECURSIVE mutateRef(_, _, _, _, _)
mutateRef(h, network, rate, seed, k) ==
  IF k <= Len(h.networks[network].layers)
  THEN Bound([mutated \in {mutateLayerRef(h, h.networks[network].layers[k],
                                          rate, seed)} |->
         IF mutated.threw THEN mutated
         ELSE mutateRef(mutated.heap, network, rate, seed, k + 1)])
  ELSE [heap |-> h, threw |-> FALSE]

\* the objects of a network the constructor or fromRandom returned, put
\* after those of h in the order the constructor allocates them: layer after
\* layer, #weight before #bias
StoreNetwork(h, network) ==
  [matrices |->
     h.matrices \o
       [i \in 1..(2 * Len(network.layers)) |->
          IF i % 2 = 1 THEN network.layers[(i + 1) \div 2].weight
          ELSE network.layers[i \div 2].bias],
   layers |->
     h.layers \o
       [k \in 1..Len(network.layers) |->
          [input |-> network.layers[k].input,
           output |-> network.layers[k].output,
           activation |-> network.layers[k].activation,
           weight |-> Len(h.matrices) + 2 * k - 1,
           bias |-> Len(h.matrices) + 2 * k]],
   networks |->
     Append(h.networks,
            [layers |-> [k \in 1..Len(network.layers) |-> Len(h.layers) + k],
             activation |-> network.activation, rate |-> network.rate])]

\* every element of every matrix is inside the exactly computed range
ExactObjects(h) ==
  \A r \in 1..Len(h.matrices) : ExactSeq(h.matrices[r].data)

(***************************************************************************)
(* SpecMatrixObjects: Matrix calls on two sample matrices (references 1    *)
(* and 2) and on the matrices the calls return                             *)
(***************************************************************************)
InitMatrixObjects ==
  /\ \E a \in MatrixSamples :
     \E b \in {SampleMatrix(a.rows, a.columns, 2),
               SampleMatrix(a.columns, a.rows, 2)} :
       heap = [NoObjects EXCEPT !.matrices = <<a, b>>]
  /\ last = [op |-> "none"]
  /\ ops = 0
  /\ nets = <<>>
  /\ mut = MutOff
  /\ topology = <<>>
  /\ MatrixIdle
  /\ HostIdle

\* this.add(matrix), the receiver being the first or the latest matrix and
\* the argument the receiver itself or the second matrix
ObjAdd ==
  /\ ops < MaxOps
  /\ \E this \in {1, Len(heap.matrices)} :
     \E matrix \in {this, 2} :
     \E result \in {addRef(heap, this, matrix)} :
       /\ ExactObjects(result.heap)
       /\ ops' = ops + 1
       /\ heap' = result.heap
       /\ last' = [op |-> "add", this |-> this, matrix |-> matrix,
                   before |-> heap, threw |-> result.threw,
                   ref |-> result.ref]
       /\ UNCHANGED <<nets, mut, topology, mvars, hvars>>

\* this.subtract(matrix)
ObjSubtract ==
  /\ ops < MaxOps
  /\ \E this \in {1, Len(heap.matrices)} :
     \E matrix \in {this, 2} :
     \E result \in {subtractRef(heap, this, matrix)} :
       /\ ExactObjects(result.heap)
       /\ ops' = ops + 1
       /\ heap' = result.heap
       /\ last' = [op |-> "subtract", this |-> this, matrix |-> matrix,
                   before |-> heap, threw |-> result.threw,
                   ref |-> result.ref]
       /\ UNCHANGED <<nets, mut, topology, mvars, hvars>>

\* this.multiply(matrix)
ObjMultiply ==
  /\ ops < MaxOps
  /\ \E this \in {1, Len(heap.matrices)} :
     \E matrix \in {this, 2} :
     \E result \in {multiplyRef(heap, this, matrix)} :
       /\ ExactObjects(result.heap)
       /\ ops' = ops + 1
       /\ heap' = result.heap
       /\ last' = [op |-> "multiply", this |-> this, matrix |-> matrix,
                   before |-> heap, threw |-> result.threw,
                   ref |-> result.ref]
       /\ UNCHANGED <<nets, mut, topology, mvars, hvars>>

\* this.transpose()
ObjTranspose ==
  /\ ops < MaxOps
  /\ \E this \in {1, Len(heap.matrices)} :
     \E result \in {transposeRef(heap, this)} :
       /\ ops' = ops + 1
       /\ heap' = result.heap
       /\ last' = [op |-> "transpose", this |-> this, matrix |-> this,
                   before |-> heap, threw |-> result.threw,
                   ref |-> result.ref]
       /\ UNCHANGED <<nets, mut, topology, mvars, hvars>>

\* this.map((value, row, column) => value + row + column + 1)
ObjMap ==
  /\ ops < MaxOps
  /\ \E this \in {1, Len(heap.matrices)} :
     \E result \in {mapRef(heap, this, [kind |-> "sample"])} :
       /\ ExactObjects(result.heap)
       /\ ops' = ops + 1
       /\ heap' = result.heap
       /\ last' = [op |-> "map", this |-> this, matrix |-> this,
                   before |-> heap, threw |-> result.threw,
                   ref |-> result.ref]
       /\ UNCHANGED <<nets, mut, topology, mvars, hvars>>

\* this.set(row, column, value) on the last element of the first row and on
\* the element one row below the last row, which is out of bounds
ObjSet ==
  /\ ops < MaxOps
  /\ \E this \in {1, Len(heap.matrices)}, value \in SetValues :
     \E row \in {0, heap.matrices[this].rows} :
     \E result \in {setRef(heap, this, row, heap.matrices[this].columns - 1,
                           value)} :
       /\ ops' = ops + 1
       /\ heap' = result.heap
       /\ last' = [op |-> "set", this |-> this, matrix |-> this,
                   before |-> heap, threw |-> result.threw, ref |-> this]
       /\ UNCHANGED <<nets, mut, topology, mvars, hvars>>

\* this.fill((row, column) => row - column)
ObjFill ==
  /\ ops < MaxOps
  /\ \E this \in {1, Len(heap.matrices)} :
       /\ ops' = ops + 1
       /\ heap' = fillRef(heap, this, [kind |-> "sample"], 0)
       /\ last' = [op |-> "fill", this |-> this, matrix |-> this,
                   before |-> heap, threw |-> FALSE, ref |-> this]
       /\ UNCHANGED <<nets, mut, topology, mvars, hvars>>

NextMatrixObjects ==
  \/ ObjAdd
  \/ ObjSubtract
  \/ ObjMultiply
  \/ ObjTranspose
  \/ ObjMap
  \/ ObjSet
  \/ ObjFill

SpecMatrixObjects == InitMatrixObjects /\ [][NextMatrixObjects]_vars

(***************************************************************************)
(* SpecLayerObjects and SpecNetworkObjects: two networks of one topology   *)
(* (references 1 and 2), their layers, and the calls on them               *)
(***************************************************************************)
InitObjects ==
  /\ topology \in Topologies
  /\ \E activation \in Activations :
       heap = StoreNetwork(
                StoreNetwork(NoObjects,
                             fromRandom(topology, One, activation, 1)),
                fromRandom(topology, Rat(1, 2), activation, 3))
  /\ last = [op |-> "none"]
  /\ ops = 0
  /\ nets = <<>>
  /\ mut = MutOff
  /\ MatrixIdle
  /\ HostIdle

\* NeuralLayer.adjust(layer, weight, bias) on a layer of network 1, the
\* deltas being the layer's own weight and bias or those of the layer of
\* network 2 at the same place
ObjAdjust ==
  /\ ops < MaxOps
  /\ \E k \in 1..Len(heap.networks[1].layers), from \in {1, 2} :
     \E layer \in {heap.networks[1].layers[k]} :
     \E weight \in {heap.layers[heap.networks[from].layers[k]].weight} :
     \E bias \in {heap.layers[heap.networks[from].layers[k]].bias} :
     \E result \in {adjustRef(heap, layer, weight, bias)} :
       /\ ExactObjects(result)
       /\ ops' = ops + 1
       /\ heap' = result
       /\ last' = [op |-> "adjust", layer |-> layer, weight |-> weight,
                   bias |-> bias, before |-> heap, threw |-> FALSE]
       /\ UNCHANGED <<nets, mut, topology, mvars, hvars>>

\* NeuralLayer.fromCrossover(layer1, layer2) on a layer of network 1 and
\* either the same layer or a layer of network 2
ObjLayerCrossover ==
  /\ ops < MaxOps
  /\ \E k1 \in 1..Len(heap.networks[1].layers),
        k2 \in 1..Len(heap.networks[2].layers), from \in {1, 2} :
     \E layer1 \in {heap.networks[1].layers[k1]} :
     \E layer2 \in {IF from = 1 THEN layer1
                    ELSE heap.networks[2].layers[k2]} :
     \E result \in {LayerFromCrossoverRef(heap, layer1, layer2)} :
       /\ ops' = ops + 1
       /\ heap' = result.heap
       /\ last' = [op |-> "layerCrossover", layer1 |-> layer1,
                   layer2 |-> layer2, before |-> heap,
                   threw |-> result.threw, ref |-> result.ref]
       /\ UNCHANGED <<nets, mut, topology, mvars, hvars>>

\* what the next call keeps of the last one
PreviousCall ==
  IF last.op = "predict"
  THEN [op |-> "predict", input |-> last.input, threw |-> last.threw,
        value |-> last.value]
  ELSE [op |-> last.op]

\* network 1 .train(input, expect)
ObjTrain ==
  /\ ops < MaxOps
  /\ \E input \in InputVectors(topology[1]),
        expect \in ExpectVectors(topology[Len(topology)]) :
     \E result \in {trainRef(heap, 1, input, expect)} :
       /\ ExactObjects(result.heap)
       /\ ops' = ops + 1
       /\ heap' = result.heap
       /\ last' = [op |-> "train", network |-> 1, input |-> input,
                   expect |-> expect, before |-> heap,
                   threw |-> result.threw, previous |-> PreviousCall]
       /\ UNCHANGED <<nets, mut, topology, mvars, hvars>>

\* network 1 .predict(input)
ObjPredict ==
  /\ ops < MaxOps
  /\ \E input \in InputVectors(topology[1]) :
     \E result \in {predictRef(heap, 1, input)} :
       /\ ExactObjects(result.heap)
       /\ ops' = ops + 1
       /\ heap' = result.heap
       /\ last' = [op |-> "predict", network |-> 1, input |-> input,
                   before |-> heap, threw |-> result.threw,
                   value |-> result.value, previous |-> PreviousCall]
       /\ UNCHANGED <<nets, mut, topology, mvars, hvars>>

\* NeuralNetwork.fromCrossover(network1, network2) on networks 1 and 2, in
\* either order, and on network 1 with itself
ObjCrossover ==
  /\ ops < MaxOps
  /\ \E pair \in {<<1, 2>>, <<2, 1>>, <<1, 1>>} :
     \E result \in {NetworkFromCrossoverRef(heap, pair[1], pair[2])} :
       /\ ExactObjects(result.heap)
       /\ ops' = ops + 1
       /\ heap' = result.heap
       /\ last' = [op |-> "fromCrossover", network1 |-> pair[1],
                   network2 |-> pair[2], before |-> heap,
                   threw |-> result.threw, ref |-> result.ref,
                   previous |-> PreviousCall]
       /\ UNCHANGED <<nets, mut, topology, mvars, hvars>>

\* NeuralNetwork.mutate(network 1, -1, 1, rate), for the rates at which
\* every randomSet call of it returns
ObjMutate ==
  /\ ops < MaxOps
  /\ \E rate \in MutateRates, seed \in {0, 1} :
       /\ \A k \in 1..Len(heap.networks[1].layers) :
            LET layer == heap.layers[heap.networks[1].layers[k]]
            IN /\ randomSetReturns(heap.matrices[layer.weight], rate)
               /\ randomSetReturns(heap.matrices[layer.bias], rate)
       /\ \E result \in {mutateRef(heap, 1, rate, seed, 1)} :
            /\ ExactObjects(result.heap)
            /\ ops' = ops + 1
            /\ heap' = result.heap
            /\ last' = [op |-> "mutate", network |-> 1, rate |-> rate,
                        before |-> heap, threw |-> result.threw,
                        previous |-> PreviousCall]
            /\ UNCHANGED <<nets, mut, topology, mvars, hvars>>

NextLayerObjects ==
  \/ ObjAdjust
  \/ ObjLayerCrossover
  \/ ObjTrain
  \/ ObjCrossover

SpecLayerObjects == InitObjects /\ [][NextLayerObjects]_vars

NextNetworkObjects ==
  \/ ObjTrain
  \/ ObjPredict
  \/ ObjCrossover
  \/ ObjMutate

SpecNetworkObjects == InitObjects /\ [][NextNetworkObjects]_vars

(***************************************************************************)
(* Claims about the objects                                                *)
(***************************************************************************)
\* C13: add, subtract, multiply, transpose and map each return a matrix that
\* did not exist before the call (so it is neither the receiver nor the
\* argument), of the receiver's shape for add, subtract and map, (R1 x C2)
\* for multiply and (C x R) for transpose, and every matrix that existed,
\* the receiver and the argument among them, has the shape and the elements
\* it had, also when the argument is the receiver itself; a call that throws
\* changes nothing, and a call after which a matrix that existed differs is
\* a set or a fill.
C13_ResultAllocated ==
  /\ (last.op \in {"add", "subtract", "multiply", "transpose", "map"}
      /\ ~last.threw) =>
       /\ last.ref \notin 1..Len(last.before.matrices)
       /\ last.ref \in 1..Len(heap.matrices)
       /\ \A r \in 1..Len(last.before.matrices) :
            heap.matrices[r] = last.before.matrices[r]
       /\ heap.matrices[last.ref].rows
            = IF last.op = "transpose"
              THEN last.before.matrices[last.this].columns
              ELSE last.before.matrices[last.this].rows
       /\ heap.matrices[last.ref].columns
            = IF last.op = "transpose"
              THEN last.before.matrices[last.this].rows
              ELSE IF last.op = "multiply"
              THEN last.before.matrices[last.matrix].columns
              ELSE last.before.matrices[last.this].columns
       /\ Len(heap.matrices[last.ref].data)
            = heap.matrices[last.ref].rows * heap.matrices[last.ref].columns
  /\ (last.op # "none" /\ last.threw) => heap = last.before
  /\ (last.op # "none"
      /\ \E r \in 1..Len(last.before.matrices) :
           heap.matrices[r] # last.before.matrices[r]) =>
       last.op \in {"set", "fill"}

\* m.add(m) on a 2 x 2 matrix that an earlier set changed: the sum is a new
\* matrix that differs from the receiver
C13_Witness ==
  /\ last.op = "add"
  /\ ops = 2
  /\ last.matrix = last.this
  /\ Len(last.before.matrices) = 2
  /\ last.ref = 3
  /\ heap.matrices[last.this].rows = 2
  /\ heap.matrices[last.this].columns = 2
  /\ heap.matrices[last.this].data[2] = Int2Num(9)
  /\ heap.matrices[last.ref].data[2] = Int2Num(18)

\* a fill that changed the matrix a multiply had returned
C13_WitnessFill ==
  /\ last.op = "fill"
  /\ last.this = 3
  /\ heap.matrices[3] # last.before.matrices[3]
  /\ heap.matrices[3].rows = last.before.matrices[3].rows

\* the layers of a network, by reference, on the given heap
LayersOf(h, network) ==
  {h.networks[network].layers[k] : k \in 1..Len(h.networks[network].layers)}

\* C23: adjust gives the layer a weight and a bias that did not exist before
\* the call and that hold the sums, and every matrix that existed, so the
\* matrices that were the layer's weight and bias and the two deltas (also
\* when the deltas are the layer's own matrices), holds the elements it had;
\* likewise after a train call for every layer of the network.
C23_AdjustAllocates ==
  /\ last.op = "adjust" =>
       /\ heap.layers[last.layer].weight \notin 1..Len(last.before.matrices)
       /\ heap.layers[last.layer].bias \notin 1..Len(last.before.matrices)
       /\ heap.layers[last.layer].weight # heap.layers[last.layer].bias
       /\ \A r \in 1..Len(last.before.matrices) :
            heap.matrices[r] = last.before.matrices[r]
       /\ heap.matrices[heap.layers[last.layer].weight]
            = add(last.before.matrices[last.before.layers[last.layer].weight],
                  last.before.matrices[last.weight])
       /\ heap.matrices[heap.layers[last.layer].bias]
            = add(last.before.matrices[last.before.layers[last.layer].bias],
                  last.before.matrices[last.bias])
  /\ (last.op = "train" /\ ~last.threw) =>
       /\ \A r \in 1..Len(last.before.matrices) :
            heap.matrices[r] = last.before.matrices[r]
       /\ \A layer \in LayersOf(last.before, last.network) :
            /\ heap.layers[layer].weight \notin 1..Len(last.before.matrices)
            /\ heap.layers[layer].bias \notin 1..Len(last.before.matrices)
            /\ heap.layers[layer].weight # heap.layers[layer].bias

\* adjust(layer, layer.weight, layer.bias): the layer's matrices are new and
\* differ from the ones it had, which are its deltas too
C23_Witness ==
  /\ last.op = "adjust"
  /\ last.weight = last.before.layers[last.layer].weight
  /\ last.bias = last.before.layers[last.layer].bias
  /\ heap.matrices[heap.layers[last.layer].weight]
       # heap.matrices[last.weight]
  /\ heap.matrices[heap.layers[last.layer].bias] # heap.matrices[last.bias]

\* a train call that changed the weight and the bias of every layer of a
\* network of two layers
C23_WitnessTrain ==
  /\ last.op = "train"
  /\ ~last.threw
  /\ Len(heap.networks[1].layers) = 2
  /\ \A layer \in LayersOf(heap, 1) :
       /\ heap.matrices[heap.layers[layer].weight]
            # heap.matrices[last.before.layers[layer].weight]
       /\ heap.matrices[heap.layers[layer].bias]
            # heap.matrices[last.before.layers[layer].bias]

\* C24: NeuralLayer.fromCrossover returns a layer that did not exist before,
\* with the input count, the output count and the activation of layer1,
\* whose weight and bias are matrices that did not exist before (so they are
\* none of the parents' matrices), and after the call, whether it returns
\* or throws, every layer and every matrix that existed is as it was, also
\* when layer2 is layer1; after NeuralNetwork.fromCrossover every network,
\* layer and matrix that existed is as it was, and the network returned and
\* its layers did not exist before.
C24_ParentsUntouched ==
  /\ last.op \in {"layerCrossover", "fromCrossover"} =>
       /\ \A r \in 1..Len(last.before.matrices) :
            heap.matrices[r] = last.before.matrices[r]
       /\ \A l \in 1..Len(last.before.layers) :
            heap.layers[l] = last.before.layers[l]
       /\ \A n \in 1..Len(last.before.networks) :
            heap.networks[n] = last.before.networks[n]
  /\ (last.op = "layerCrossover" /\ ~last.threw) =>
       /\ last.ref \notin 1..Len(last.before.layers)
       /\ heap.layers[last.ref].input = last.before.layers[last.layer1].input
       /\ heap.layers[last.ref].output
            = last.before.layers[last.layer1].output
       /\ heap.layers[last.ref].activation
            = last.before.layers[last.layer1].activation
       /\ heap.layers[last.ref].weight \notin 1..Len(last.before.matrices)
       /\ heap.layers[last.ref].bias \notin 1..Len(last.before.matrices)
       /\ heap.layers[last.ref].weight # heap.layers[last.ref].bias
  /\ (last.op = "fromCrossover" /\ ~last.threw) =>
       /\ last.ref \notin 1..Len(last.before.networks)
       /\ Len(heap.networks[last.ref].layers)
            = Len(last.before.networks[last.network1].layers)
       /\ \A layer \in LayersOf(heap, last.ref) :
            /\ layer \notin 1..Len(last.before.layers)
            /\ heap.layers[layer].weight \notin 1..Len(last.before.matrices)
            /\ heap.layers[layer].bias \notin 1..Len(last.before.matrices)

\* a crossover of two layers whose child differs from both in weight or
\* bias
C24_Witness ==
  /\ last.op = "layerCrossover"
  /\ ~last.threw
  /\ last.layer1 # last.layer2
  /\ heap.matrices[heap.layers[last.ref].weight]
       # heap.matrices[heap.layers[last.layer1].weight]
  /\ heap.matrices[heap.layers[last.ref].weight]
       # heap.matrices[heap.layers[last.layer2].weight]
  /\ heap.matrices[heap.layers[last.ref].bias]
       # heap.matrices[heap.layers[last.layer1].bias]

\* a crossover of a layer with itself, the child being a new layer
C24_WitnessSelf ==
  /\ last.op = "layerCrossover"
  /\ ~last.threw
  /\ last.layer1 = last.layer2
  /\ heap.matrices[heap.layers[last.ref].weight]
       # heap.matrices[heap.layers[last.layer1].weight]

\* a network crossover that returned a network of two new layers
C24_WitnessNetwork ==
  /\ last.op = "fromCrossover"
  /\ ~last.threw
  /\ last.network1 # last.network2
  /\ Len(heap.networks[last.ref].layers) = 2

\* the learning rate and, layer by layer, the weight and the bias a network
\* holds on the given heap
Parameters(h, network) ==
  [rate |-> h.networks[network].rate,
   layers |->
     [k \in 1..Len(h.networks[network].layers) |->
        [weight |->
           h.matrices[h.layers[h.networks[network].layers[k]].weight],
         bias |->
           h.matrices[h.layers[h.networks[network].layers[k]].bias]]]]

\* C25: after predict every network, every layer and every matrix that
\* existed is as it was (the rate, the layer sequence, each weight and each
\* bias), and a predict call that follows a predict call with the same input
\* returns the same output; among train, predict, mutate and fromCrossover
\* calls, one after which the parameters of a network that existed differ
\* is a train or a mutate.
C25_PredictReadsOnly ==
  /\ last.op = "predict" =>
       /\ \A r \in 1..Len(last.before.matrices) :
            heap.matrices[r] = last.before.matrices[r]
       /\ heap.layers = last.before.layers
       /\ heap.networks = last.before.networks
       /\ (last.previous.op = "predict"
           /\ last.previous.input = last.input) =>
            /\ last.threw = last.previous.threw
            /\ last.value = last.previous.value
  /\ (last.op # "none"
      /\ \E n \in 1..Len(last.before.networks) :
           Parameters(heap, n) # Parameters(last.before, n)) =>
       last.op \in {"train", "mutate"}

\* two predict calls in a row with the same input on a network of two
\* layers, with an output that is not the bias of the last layer
C25_Witness ==
  /\ last.op = "predict"
  /\ ~last.threw
  /\ last.previous.op = "predict"
  /\ last.previous.input = last.input
  /\ Len(heap.networks[1].layers) = 2
  /\ last.value # Parameters(heap, 1).layers[2].bias.data
  /\ \E i \in 1..Len(last.value) : last.value[i] # Zero

\* a train call and a mutate call that changed the parameters of network 1
C25_WitnessTrain ==
  /\ last.op = "train"
  /\ Parameters(heap, 1) # Parameters(last.before, 1)

C25_WitnessMutate ==
  /\ last.op = "mutate"
  /\ ~last.threw
  /\ Parameters(heap, 1) # Parameters(last.before, 1)

(***************************************************************************)
(* SpecChannel: one promise-based Worker endpoint (core/worker.ts) that    *)
(* emits requests of any name, the neural worker behind it, and a thread   *)
(* that may post reply messages of its own making.  Message events that    *)
(* are queued are dispatched, and a listener that was called runs to its   *)
(* end.                                                                    *)
(***************************************************************************)
\* the event names given to emit; "other" has no listener in the worker
RequestNames == Listeners \cup {"other"}

\* worker.emit(name, ...) with no handler awaiting more than the promise
ChannelEmit ==
  \E name \in RequestNames :
    LET sent == emit(host, chan, name, canvasData(host.canvas))
    IN /\ host.promiseIds < MaxEmits
       /\ host' = sent.host
       /\ chan' = sent.chan
       /\ UNCHANGED <<mvars, nvars, heap>>

\* the thread posts a message [id, '', status] that answers no request of
\* its own: a second reply to a request, or a reply to none
PeerReply ==
  \E id \in 0..(MaxEmits - 1), status \in BOOLEAN :
    /\ chan.unrequested < MaxReplies
    /\ chan' = [chan EXCEPT !.unrequested = @ + 1,
                            !.outbox = Append(@, [id |-> id, name |-> "",
                                                  status |-> status,
                                                  answer |-> 0])]
    /\ UNCHANGED <<host, mvars, nvars, heap>>

NextChannel ==
  \/ ChannelEmit
  \/ PeerReply
  \/ WorkerMessage
  \/ WorkerReply
  \/ HostMessage

SpecChannel ==
  /\ InitHost
  /\ [][NextChannel]_vars
  /\ WF_vars(WorkerMessage)
  /\ WF_vars(WorkerReply)
  /\ WF_vars(HostMessage)

\* C26: every emit allocates an id no earlier emit used; a reply settles the
\* promise of its id and no other, resolving it when status is true and
\* rejecting it otherwise; no promise is settled twice; a reply whose id has
\* no pending promise (unknown or already settled) settles nothing
C26_ReplySettlesItsPromise ==
  /\ [](/\ \A p \in host.eventPromises : p.id < host.promiseIds
        /\ \A p, q \in host.eventPromises : p.id = q.id => p = q
        /\ \A i, j \in 1..Len(host.settled) :
             host.settled[i].id = host.settled[j].id => i = j
        /\ \A i \in 1..Len(host.settled) :
             /\ host.settled[i].id < host.promiseIds
             /\ \A p \in host.eventPromises : p.id # host.settled[i].id)
  /\ [][/\ host'.promiseIds # host.promiseIds =>
             /\ host'.promiseIds = host.promiseIds + 1
             /\ \E p \in host'.eventPromises :
                  /\ p.id = host.promiseIds
                  /\ host'.eventPromises = host.eventPromises \cup {p}
             /\ host'.settled = host.settled
        /\ Len(chan'.outbox) < Len(chan.outbox) =>
             IF \E p \in host.eventPromises : p.id = chan.outbox[1].id
             THEN /\ host'.eventPromises =
                       {p \in host.eventPromises : p.id # chan.outbox[1].id}
                  /\ host'.settled =
                       Append(host.settled,
                              [id |-> chan.outbox[1].id,
                               outcome |-> IF chan.outbox[1].status
                                           THEN "resolve" ELSE "reject",
                               value |-> chan.outbox[1].answer])
             ELSE /\ host'.eventPromises = host.eventPromises
                  /\ host'.settled = host.settled
                  /\ host'.controls = host.controls]_vars

\* two promises were made; the second was rejected, then the first was
\* resolved with a result, and a second reply to the settled id 1 was ignored
C26_Witness ==
  /\ host.promiseIds = 2
  /\ Len(host.settled) = 2
  /\ host.settled[1] = [id |-> 1, outcome |-> "reject", value |-> 0]
  /\ host.settled[2] = [id |-> 0, outcome |-> "resolve", value |-> 1]
  /\ host.ignored = {1}
  /\ host.eventPromises = {}

\* a reply whose id no emit had allocated yet was ignored
C26_WitnessUnknown ==
  /\ host.promiseIds = 1
  /\ host.ignored = {1}

\* C27: for every request with a non-empty name that the worker's endpoint
\* receives, a reply with the request's id and an empty name is eventually
\* posted back, and so the promise emit returned for it is eventually
\* settled
C27_EveryRequestAnswered ==
  \A id \in 0..(MaxEmits - 1) :
    /\ (\E i \in 1..Len(chan.inbox) : chan.inbox[i].id = id)
         ~> (\E i \in 1..Len(chan.outbox) :
               chan.outbox[i].id = id /\ chan.outbox[i].name = "")
    /\ (\E p \in host.eventPromises : p.id = id)
         ~> (\A p \in host.eventPromises : p.id # id)

(***************************************************************************)
(* SpecHostLive: the page and its worker with the message events that are  *)
(* queued dispatched and the listener that was called run to its end       *)
(* (train is a loop of 1000 rounds, predict one forward pass); clicks and  *)
(* drawing are up to the user.                                             *)
(***************************************************************************)
SpecHostLive ==
  /\ InitHost
  /\ [][NextHost]_vars
  /\ WF_vars(WorkerMessage)
  /\ WF_vars(WorkerReply)
  /\ WF_vars(HostMessage)

\* C28: after a train or predict click has disabled the controls (buttons
\* and class inputs), they are eventually enabled again, whether the worker
\* answers with a success reply or with an error reply
C28_ControlsReenabled ==
  (host.controls = enableControls(FALSE))
    ~> (host.controls = enableControls(TRUE))

(***************************************************************************)
(* SpecCanvas: the Canvas (core/canvas.ts) under click, mousemove and      *)
(* clear, the mouse being over the canvas element                          *)
(***************************************************************************)
InitCanvas ==
  /\ host = [canvas |-> NewCanvas(CanvasSize, CanvasSize, CanvasPixels),
             event |-> [kind |-> "none", buttons |-> 0]]
  /\ chan = [op |-> "none"]
  /\ NetIdle
  /\ MatrixIdle
  /\ ObjectsIdle

\* a click event at (offsetX, offsetY) = (x, y); `event` records the grid
\* pixel the event fell on, the canvas before it and the event before it
CanvasClick ==
  \E x \in 0..(CanvasSize - 1), y \in 0..(CanvasSize - 1) :
    LET result == handleClick(host.canvas, x, y)
    IN /\ host' = [canvas |-> result.canvas,
                   event |-> [kind |-> "click", buttons |-> 0,
                              row |-> getPixelRow(host.canvas, y),
                              column |-> getPixelColumn(host.canvas, x),
                              threw |-> result.threw,
                              before |-> host.canvas,
                              prior |-> [kind |-> host.event.kind,
                                         buttons |-> host.event.buttons]]]
       /\ UNCHANGED <<chan, mvars, nvars, heap>>

\* a mousemove event at (x, y) with the given buttons pressed
CanvasMove ==
  \E x \in 0..(CanvasSize - 1), y \in 0..(CanvasSize - 1),
     buttons \in MouseButtons :
    LET result == handleMove(host.canvas, buttons, x, y)
    IN /\ host' = [canvas |-> result.canvas,
                   event |-> [kind |-> "move", buttons |-> buttons,
                              row |-> getPixelRow(host.canvas, y),
                              column |-> getPixelColumn(host.canvas, x),
                              threw |-> result.threw,
                              before |-> host.canvas,
                              prior |-> [kind |-> host.event.kind,
                                         buttons |-> host.event.buttons]]]
       /\ UNCHANGED <<chan, mvars, nvars, heap>>

\* canvas.clear()
CanvasClear ==
  /\ host' = [canvas |-> canvasClear(host.canvas),
              event |-> [kind |-> "clear", buttons |-> 0, row |-> 0,
                         column |-> 0, threw |-> FALSE, before |-> host.canvas,
                         prior |-> [kind |-> host.event.kind,
                                    buttons |-> host.event.buttons]]]
  /\ UNCHANGED <<chan, mvars, nvars, heap>>

NextCanvas ==
  \/ CanvasClick
  \/ CanvasMove
  \/ CanvasClear

SpecCanvas == InitCanvas /\ [][NextCanvas]_vars

\* C29: after any sequence of click, mousemove and clear events every
\* element of the pixel matrix is 0 or 1 and canvas.data has
\* pixels * pixels elements; a click that follows a drag (a mousemove with
\* the primary button pressed) toggles no pixel and resets the drawing flag
C29_CanvasPixels ==
  /\ \A i \in 1..Len(host.canvas.pixels.data) :
       host.canvas.pixels.data[i] \in {Zero, One}
  /\ Len(canvasData(host.canvas)) = CanvasPixels * CanvasPixels
  /\ \A i \in 1..Len(canvasData(host.canvas)) :
       canvasData(host.canvas)[i] \in {Zero, One}
  /\ (/\ host.event.kind = "click"
      /\ host.event.prior = [kind |-> "move", buttons |-> 1]) =>
       /\ ~host.event.threw
       /\ host.canvas.pixels = host.event.before.pixels
       /\ ~host.canvas.drawing
  /\ host.event.kind = "clear" =>
       host.canvas.pixels = NewMatrix(CanvasPixels, CanvasPixels)

\* a click right after a drag that drew two pixels, on a pixel that is set
C29_Witness ==
  /\ host.event.kind = "click"
  /\ host.event.prior = [kind |-> "move", buttons |-> 1]
  /\ host.event.before.drawing
  /\ get(host.canvas.pixels, host.event.row, host.event.column).value = One
  /\ Cardinality({i \in 1..Len(host.canvas.pixels.data) :
                    host.canvas.pixels.data[i] = One}) = 2

\* a click with no drag before it cleared a pixel that was set
C29_WitnessToggle ==
  /\ host.event.kind = "click"
  /\ host.event.prior.kind = "click"
  /\ host.canvas.pixels # host.event.before.pixels
  /\ host.canvas.pixels = NewMatrix(CanvasPixels, CanvasPixels)

====
